---- MODULE Spec2Model ----
(***************************************************************************)
(* hiqty: the player's reconciliation engine.                              *)
(*                                                                         *)
(* Several bot processes share one Redis store.  Each process runs         *)
(* Player.Run, reconciles a guild's `state` key with Player.Fulfill,       *)
(* claims the guild's player_lock through redsync and plays the playlist   *)
(* in Player.Play / Player.PlayTrack (src/player.go).  The later           *)
(* PlayerController iteration (src/unnamed/part_003) is modelled next to   *)
(* it, on its own variables.                                               *)
(*                                                                         *)
(* Time is a discrete clock: one Tick is Quantum seconds.  Nothing forces  *)
(* a goroutine to run before the clock advances, so every scheduling       *)
(* delay is a behaviour of the model.                                      *)
(***************************************************************************)
EXTENDS Integers, Sequences, FiniteSets, TLC

\* ---- bounds of the model ------------------------------------------------
MaxFulfill == 1
MaxQueue == 2
MaxFrames == 1
Quantum == 5
MaxPlayers == 2
MaxEvents == 3
MaxChunks == 2
MaxPending == 1

\* ---- program constants --------------------------------------------------
Expiry == 15
ExtendPeriod == 10
RetryDelay == 2

Procs == {"p1", "p2"}
Guilds == {"g1"}
Slots == 1..MaxFulfill
Tracks == {"A"}
Malformed == "bad"
StatePlaying == "playing"
StateStopped == "stopped"
NoGuild == "none"

VARIABLES
    state,          \* store: hiqty:server:<gid>:state
    playlist,       \* store: hiqty:server:<gid>:playlist
    channel,        \* store: hiqty:server:<gid>:channel
    lock,           \* store: hiqty:server:<gid>:player_lock, the live leases granted on it
    age,            \* seconds since the last successful Lock or Extend of the guild
    orphan,         \* the guild's lease was left behind by a crashed process
    alive,          \* the process is running
    ctxDone,        \* Run's context (the shutdown token) is cancelled
    isShuttingDown, \* Player.isShuttingDown
    runPc,          \* position of Player.Run
    vcCancels,      \* Player.vcCancels: gid -> the registered session's cancel
    vcWaitGroup,    \* Player.vcWaitGroup's counter
    thr,            \* the running Fulfill calls
    ses,            \* the player goroutines (Play and PlayTrack)
    cState,         \* PlayerController: the guild's state key
    cCtxDone,       \* PlayerController: Run's context is cancelled
    cRunPc,         \* PlayerController: position of Run
    cCancels,       \* PlayerController.cancels
    cWg,            \* PlayerController.wg's counter
    cPlayers,       \* PlayerController: the Player.Run goroutines
    wSubs,          \* Watcher: the topics subscribed on PS, with the db and key of each
    wCh,            \* Watcher: the key Run is handing over on its channel
    wPc,            \* Watcher.Run: "recv" in its receive loop, "closed" once it returned
    wCtxDone,       \* Watcher.Run: its context is done
    wLog,           \* observer: the events Run received and the keys it sent, in order
    rp,             \* Player.Run (src/unnamed/part_006): its position and locals
    rStop,          \* Player.Run (part_006): the stop channel is signalled
    rCtxDone,       \* Player.Run (part_006): its context is done
    rPlays,         \* observer: the tracks Player.Run (part_006) started to stream
    pipe,           \* Player.Run (part_006): the stages of a sub-session, taken one by one
    attempts,       \* observer: the tracks the guild's current session handed to PlayTrack
    pushed,         \* observer: the number of envelopes pushed onto the guild's playlist
    snapshot,       \* observer: the guild's playlist when its playing session was cancelled
    delivered,      \* observer: the process's unfinished Fulfill calls, in the order they were started
    pending         \* the guild's keyspace notifications and guild-create events not yet received

storeVars == <<state, playlist, channel, lock, age, orphan>>
procVars == <<alive, ctxDone, isShuttingDown, runPc, vcCancels, vcWaitGroup>>
obsVars == <<attempts, pushed, snapshot, delivered, pending>>
playerVars == <<storeVars, procVars, thr, ses, obsVars>>
ctlVars == <<cState, cCtxDone, cRunPc, cCancels, cWg, cPlayers>>
watchVars == <<wSubs, wCh, wPc, wCtxDone, wLog>>
runVars == <<rp, rStop, rCtxDone, rPlays, pipe>>
vars == <<playerVars, ctlVars, watchVars, runVars>>

Min(a, b) == IF a < b THEN a ELSE b
Max(a, b) == IF a > b THEN a ELSE b

\* ---- the lease (redsync mutex on one store) -----------------------------

\* A mutex value: unique to the Fulfill call that generated it.
MutexValue(p, i) == <<p, i>>

Lease_Short(v) == [val |-> v, ttl |-> ExtendPeriod]

\* The key written by a successful Lock: SET NX PX 15000.
Lease(v) == [val |-> v, ttl |-> Expiry]

LockFree_Unchecked(g) == TRUE

\* SET ... NX succeeds only when the key does not exist.
LockFree(g) == lock[g] = {}

\* The mutex's value is the one stored under the key (what Extend and Unlock test).
Owns(v, g) == \E l \in lock[g] : l.val = v

Unlocked_Any(l, v) == {}

\* mutex.Unlock(): DEL of the key only if GET of the key returns the mutex's value.
Unlocked(l, v) == {x \in l : x.val # v}

AfterLockFailure_GiveUp == "idle"

\* Where Fulfill continues after a failed Lock: sleep 2s, then try again.
AfterLockFailure == "sleep"

\* ---- goroutine records --------------------------------------------------
NoThread == [pc |-> "idle", gid |-> NoGuild, timer |-> 0]

NoSession ==
    [pc |-> "none", gid |-> NoGuild, cancelled |-> FALSE, ticker |-> 0,
     tick |-> FALSE, cur |-> "", pt |-> "none", sent |-> 0,
     playErr |-> FALSE, vc |-> FALSE, started |-> FALSE, extFailed |-> FALSE,
     drained |-> FALSE]

NoPlayer == [pc |-> "none", gid |-> NoGuild, cancelled |-> FALSE]

\* Player.Run of src/unnamed/part_006 before it is started: cid, voiceState
\* and track are unset, packets is the nil channel.
\* The stages of Player.Run's sub-session are not taken one by one: the
\* field packets of Run stands for the whole pipeline.
NoPipe == [resp |-> "none", pkts |-> "none", cancelled |-> FALSE, left |-> 0]

\* The stages are taken one by one, and no sub-session has been started.
IdlePipe == [resp |-> "idle", pkts |-> "idle", cancelled |-> FALSE, left |-> 0]

NoRun ==
    [pc |-> "none", gid |-> NoGuild, cid |-> "", vs |-> "", track |-> "",
     packets |-> "nil", got |-> 0]

\* ---- the observer of playback attempts ----------------------------------

\* The observer keeps a log for the guilds in its domain; here, for none.
NotObserved == [g \in {} |-> <<>>]

\* The log after the observed guild's session hands track t to PlayTrack.
Logged(a, g, t) == [x \in DOMAIN a |-> IF x = g THEN Append(a[x], t) ELSE a[x]]

\* The log after a new session is spawned for the guild.
Cleared(a, g) == [x \in DOMAIN a |-> IF x = g THEN <<>> ELSE a[x]]

\* The observer's note of the playlist q of the guild: taken when a session
\* that is playing a track is cancelled, dropped when a new session is spawned.
Noted(sn, g, q) == [x \in DOMAIN sn |-> IF x = g THEN <<q>> ELSE sn[x]]

\* The count after one more envelope is pushed onto the observed guild's playlist.
Counted(c, g) == [x \in DOMAIN c |-> IF x = g THEN c[x] + 1 ELSE c[x]]

\* A write or a delete of the guild's state key: redis publishes a keyspace
\* notification on the key's topic, which waits on the pub/sub connection.
Notified(c, g) == [x \in DOMAIN c |-> IF x = g THEN Min(c[x] + 1, MaxPending) ELSE c[x]]

\* ListenForStateKeyChanges (or HandleGuildCreate) takes the guild's event.
Received(c, g) == [x \in DOMAIN c |-> IF x = g THEN c[x] - 1 ELSE c[x]]

\* The Fulfill call in slot i of process p is started: it is the last in the
\* order of the process's unfinished calls.
Arrived(d, p, i) == [x \in DOMAIN d |-> IF x = p THEN Append(d[x], i) ELSE d[x]]

\* The Fulfill call in slot i of process p has returned.
Gone(d, p, i) ==
    [x \in DOMAIN d |-> IF x = p THEN SelectSeq(d[x], LAMBDA j : j # i) ELSE d[x]]

Init ==
    /\ state = [g \in Guilds |-> ""]
    /\ playlist = [g \in Guilds |-> <<>>]
    /\ channel = [g \in Guilds |-> "c1"]
    /\ lock = [g \in Guilds |-> {}]
    /\ age = [g \in Guilds |-> Expiry]
    /\ orphan = [g \in Guilds |-> FALSE]
    /\ alive = [p \in Procs |-> TRUE]
    /\ ctxDone = [p \in Procs |-> FALSE]
    /\ isShuttingDown = [p \in Procs |-> FALSE]
    /\ runPc = [p \in Procs |-> "run"]
    /\ vcCancels = [p \in Procs |-> [g \in Guilds |-> 0]]
    /\ vcWaitGroup = [p \in Procs |-> 0]
    /\ thr = [p \in Procs |-> [i \in Slots |-> NoThread]]
    /\ ses = [p \in Procs |-> [i \in Slots |-> NoSession]]
    /\ cState = [g \in Guilds |-> ""]
    /\ cCtxDone = FALSE
    /\ cRunPc = "loop"
    /\ cCancels = [g \in Guilds |-> 0]
    /\ cWg = 0
    /\ cPlayers = [k \in 1..MaxPlayers |-> NoPlayer]
    /\ wSubs = {}
    /\ wCh = <<>>
    /\ wPc = "recv"
    /\ wCtxDone = FALSE
    /\ wLog = NotObserved
    /\ rp = NoRun
    /\ rStop = FALSE
    /\ rCtxDone = FALSE
    /\ rPlays = <<>>
    /\ pipe = NoPipe
    /\ attempts = NotObserved
    /\ pushed = NotObserved
    /\ snapshot = NotObserved
    /\ delivered = NotObserved
    /\ pending = NotObserved

\* ---- the clock ----------------------------------------------------------

\* Quantum seconds pass: leases age and expire, sleeps and tickers run down.
Tick ==
    /\ lock' = [g \in DOMAIN lock |->
                  {[l EXCEPT !.ttl = l.ttl - Quantum] : l \in {x \in lock[g] : x.ttl > Quantum}}]
    /\ age' = [g \in DOMAIN age |-> Min(age[g] + Quantum, Expiry)]
    /\ thr' = [p \in Procs |-> [i \in DOMAIN thr[p] |->
                  [thr[p][i] EXCEPT !.timer = Max(0, @ - Quantum)]]]
    /\ ses' = [p \in Procs |-> [i \in DOMAIN ses[p] |->
                  IF ses[p][i].pc \notin {"peek", "empty", "inner"} THEN ses[p][i]
                  ELSE IF ses[p][i].ticker > Quantum
                       THEN [ses[p][i] EXCEPT !.ticker = @ - Quantum]
                       ELSE [ses[p][i] EXCEPT !.ticker = ExtendPeriod, !.tick = TRUE]]]
    /\ UNCHANGED <<state, playlist, channel, orphan, procVars, ctlVars, watchVars, runVars, obsVars>>

\* ---- Player.Fulfill (src/player.go) -------------------------------------

FulfillBranch_Playing(s) == "check"

\* switch state: "playing" goes on to the registry check, "" and "stopped" to
\* the cancellation of the registered session.
FulfillBranch(s) == IF s = StatePlaying THEN "check" ELSE "stopped"

MayRun_InLine(p, i) == alive[p] /\ \A j \in DOMAIN thr[p] : j < i => thr[p][j].pc = "idle"

\* go p.Fulfill(g): every Fulfill call is a goroutine of its own, which runs
\* whenever its process does, whatever the other calls are doing.
MayRun(p, i) == alive[p]

\* A state notification or a guild-create event starts Fulfill, which reads the
\* guild's state key and takes the matching branch of the switch.
FulfillGet(p, i, g) ==
    /\ alive[p]
    /\ thr[p][i].pc = "idle"
    /\ thr' = [thr EXCEPT ![p][i] =
                  [pc |-> FulfillBranch(state[g]), gid |-> g, timer |-> 0]]
    /\ g \in DOMAIN pending => pending[g] > 0
    /\ pending' = Received(pending, g)
    /\ delivered' = Arrived(delivered, p, i)
    /\ UNCHANGED <<storeVars, procVars, ses, ctlVars, watchVars, runVars, attempts, pushed, snapshot>>

\* case "", "stopped": cancel the session registered for the guild, if any.
FulfillStopped(p, i) ==
    /\ MayRun(p, i)
    /\ thr[p][i].pc = "stopped"
    /\ LET g == thr[p][i].gid
           k == vcCancels[p][g]
       IN  /\ ses' = IF k # 0 /\ ses[p][k].pc \in {"spawned", "peek", "empty", "inner", "ret"}
                     THEN [ses EXCEPT ![p][k].cancelled = TRUE] ELSE ses
           /\ snapshot' = IF k # 0 /\ ses[p][k].pt = "run" /\ ~ses[p][k].cancelled
                          THEN Noted(snapshot, g, playlist[g]) ELSE snapshot
    /\ thr' = [thr EXCEPT ![p][i] = NoThread]
    /\ UNCHANGED <<storeVars, procVars, ctlVars, watchVars, runVars, attempts, pushed, pending>>
    /\ delivered' = Gone(delivered, p, i)

\* case "playing": nothing to do when a session is registered for the guild.
FulfillCheck(p, i) ==
    /\ MayRun(p, i)
    /\ thr[p][i].pc = "check"
    /\ thr' = [thr EXCEPT ![p][i] =
                  IF vcCancels[p][thr[p][i].gid] # 0 THEN NoThread
                  ELSE [@ EXCEPT !.pc = "lock"]]
    /\ delivered' = IF vcCancels[p][thr[p][i].gid] # 0 THEN Gone(delivered, p, i)
                     ELSE delivered
    /\ UNCHANGED <<storeVars, procVars, ses, ctlVars, watchVars, runVars, attempts, pushed, snapshot, pending>>

\* One mutex.Lock() of the retry loop: a single SET NX attempt.
FulfillLock(p, i) ==
    /\ MayRun(p, i)
    /\ thr[p][i].pc = "lock"
    /\ LET g == thr[p][i].gid
       IN  IF LockFree(g)
           THEN /\ ses[p][i].pc = "none"
                /\ lock' = [lock EXCEPT ![g] = @ \cup {Lease(MutexValue(p, i))}]
                /\ age' = [age EXCEPT ![g] = 0]
                /\ orphan' = [orphan EXCEPT ![g] = FALSE]
                /\ thr' = [thr EXCEPT ![p][i].pc = "register"]
           ELSE /\ thr' = [thr EXCEPT ![p][i].pc = AfterLockFailure,
                                      ![p][i].timer = RetryDelay]
                /\ UNCHANGED <<lock, age, orphan>>
    /\ UNCHANGED <<state, playlist, channel, procVars, ses, ctlVars, watchVars, runVars, obsVars>>

\* time.Sleep(2 * time.Second) is over: continue with the next attempt.
FulfillWake(p, i) ==
    /\ MayRun(p, i)
    /\ thr[p][i].pc = "sleep"
    /\ thr[p][i].timer = 0
    /\ thr' = [thr EXCEPT ![p][i].pc = "lock"]
    /\ UNCHANGED <<storeVars, procVars, ses, ctlVars, watchVars, runVars, obsVars>>

\* Lock claimed: register the cancel function and spawn the player goroutine.
FulfillRegister(p, i) ==
    /\ MayRun(p, i)
    /\ thr[p][i].pc = "register"
    /\ vcCancels' = [vcCancels EXCEPT ![p][thr[p][i].gid] = i]
    /\ ses' = [ses EXCEPT ![p][i] = [NoSession EXCEPT !.pc = "spawned", !.gid = thr[p][i].gid]]
    /\ thr' = [thr EXCEPT ![p][i] = NoThread]
    /\ attempts' = Cleared(attempts, thr[p][i].gid)
    /\ snapshot' = Cleared(snapshot, thr[p][i].gid)
    /\ UNCHANGED <<storeVars, alive, ctxDone, isShuttingDown, runPc, vcWaitGroup, ctlVars, watchVars, runVars, pushed, pending>>
    /\ delivered' = Gone(delivered, p, i)

\* ---- the player goroutine: Play, then Unlock, delete, Done --------------

Returned_Connected(r) == [r EXCEPT !.pc = "unlock"]

Returned_Unreleased(r) == [NoSession EXCEPT !.pc = "delete", !.gid = r.gid]

\* What is left of the goroutine's record once Play has returned and the voice
\* connection is closed: ticker, context and PlayTrack no longer act on anything.
Returned(r) == [NoSession EXCEPT !.pc = "unlock", !.gid = r.gid]

\* The goroutine starts: vcWaitGroup.Add(1), then Play's NewTicker(10s), GET
\* channel and ChannelVoiceJoin.  Play returns when the channel key is missing
\* (redis.ErrNil) or the join fails.
SessStart(p, i) ==
    /\ alive[p]
    /\ ses[p][i].pc = "spawned"
    /\ vcWaitGroup' = [vcWaitGroup EXCEPT ![p] = @ + 1]
    /\ \E joined \in BOOLEAN :
          ses' = [ses EXCEPT ![p][i] =
                    IF joined /\ channel[ses[p][i].gid] # ""
                    THEN [@ EXCEPT !.pc = "peek", !.vc = TRUE, !.ticker = ExtendPeriod]
                    ELSE Returned(@)]
    /\ UNCHANGED <<storeVars, alive, ctxDone, isShuttingDown, runPc, vcCancels, thr, ctlVars, watchVars, runVars, obsVars>>

LPop_Two(q) == IF Len(q) < 2 THEN <<>> ELSE Tail(Tail(q))

\* LPOP: removes the head the list has now.
LPop(q) == IF q = <<>> THEN q ELSE Tail(q)

Peeked_Last(q) == q[Len(q)]

\* bytes[0] of LRANGE playlist 0 1: the head of the list, which stays in it.
Peeked(q) == Head(q)

\* LRANGE playlist 0 1, and what Play does with the head: an empty playlist
\* leads to the DEL of the state key; a malformed head is popped and the read
\* repeated; a track is handed to a new PlayTrack goroutine (started records
\* that this happened before Run's context was cancelled).
PlayPeek(p, i) ==
    /\ alive[p]
    /\ ses[p][i].pc = "peek"
    /\ LET g == ses[p][i].gid
           q == playlist[g]
       IN  IF q = <<>>
           THEN /\ ses' = [ses EXCEPT ![p][i].pc = "empty"]
                /\ UNCHANGED <<playlist, attempts>>
           ELSE IF Peeked(q) = Malformed
           THEN /\ playlist' = [playlist EXCEPT ![g] = LPop(@)]
                /\ UNCHANGED <<ses, attempts>>
           ELSE /\ ses' = [ses EXCEPT ![p][i].pc = "inner", ![p][i].cur = Peeked(q),
                                      ![p][i].pt = "run", ![p][i].sent = 0,
                                      ![p][i].started = ~ctxDone[p]]
                /\ attempts' = Logged(attempts, g, Peeked(q))
                /\ UNCHANGED playlist
    /\ UNCHANGED <<state, channel, lock, age, orphan, procVars, thr, ctlVars, watchVars, runVars, pushed, snapshot, delivered, pending>>

\* Playlist is empty: DEL state, return.
PlayClearState(p, i) ==
    /\ alive[p]
    /\ ses[p][i].pc = "empty"
    /\ state' = [state EXCEPT ![ses[p][i].gid] = ""]
    /\ ses' = [ses EXCEPT ![p][i].pc = "ret"]
    /\ pending' = IF state[ses[p][i].gid] # "" THEN Notified(pending, ses[p][i].gid)
                  ELSE pending
    /\ UNCHANGED <<playlist, channel, lock, age, orphan, procVars, thr, ctlVars, watchVars, runVars, attempts, pushed, snapshot, delivered>>

\* select case err := <-playError: pop the completed (or failed) track, next track.
\* (drained records that a track started before Run's context was cancelled
\* has ended after it.)
PlayTrackDone(p, i) ==
    /\ alive[p]
    /\ ses[p][i].pc = "inner"
    /\ ses[p][i].playErr
    /\ playlist' = [playlist EXCEPT ![ses[p][i].gid] = LPop(@)]
    /\ ses' = [ses EXCEPT ![p][i].pc = "peek", ![p][i].playErr = FALSE, ![p][i].cur = "",
                           ![p][i].started = FALSE,
                           ![p][i].drained = (ctxDone[p] /\ ses[p][i].started)]
    /\ UNCHANGED <<state, channel, lock, age, orphan, procVars, thr, ctlVars, watchVars, runVars, obsVars>>

\* select case <-ctx.Done(): return.
PlayCancelled(p, i) ==
    /\ alive[p]
    /\ ses[p][i].pc = "inner"
    /\ ses[p][i].cancelled
    /\ ses' = [ses EXCEPT ![p][i].pc = "ret"]
    /\ UNCHANGED <<storeVars, procVars, thr, ctlVars, watchVars, runVars, obsVars>>

AfterExtendFailure_Continue == "peek"

\* if !mutex.Extend() { ...; return }: where Play goes after a failed Extend.
AfterExtendFailure == "ret"

\* select case <-extendTicker.C: mutex.Extend() resets the TTL when the key still
\* holds this mutex's value; otherwise Play returns.
PlayExtend(p, i) ==
    /\ alive[p]
    /\ ses[p][i].pc = "inner"
    /\ ses[p][i].tick
    /\ LET g == ses[p][i].gid
           v == MutexValue(p, i)
       IN  IF Owns(v, g)
           THEN /\ lock' = [lock EXCEPT ![g] =
                               {IF l.val = v THEN Lease(v) ELSE l : l \in @}]
                /\ age' = [age EXCEPT ![g] = 0]
                /\ ses' = [ses EXCEPT ![p][i].tick = FALSE]
           ELSE /\ ses' = [ses EXCEPT ![p][i].tick = FALSE, ![p][i].pc = AfterExtendFailure,
                                      ![p][i].extFailed = TRUE]
                /\ UNCHANGED <<lock, age>>
    /\ UNCHANGED <<state, playlist, channel, orphan, procVars, thr, ctlVars, watchVars, runVars, obsVars>>

\* Play returns to the goroutine: the deferred vc.Disconnect() runs.
PlayReturn(p, i) ==
    /\ alive[p]
    /\ ses[p][i].pc = "ret"
    /\ ses' = [ses EXCEPT ![p][i] = Returned(@)]
    /\ UNCHANGED <<storeVars, procVars, thr, ctlVars, watchVars, runVars, obsVars>>

\* mutex.Unlock(): deletes the key when it still holds this mutex's value.
SessUnlock(p, i) ==
    /\ alive[p]
    /\ ses[p][i].pc = "unlock"
    /\ lock' = [lock EXCEPT ![ses[p][i].gid] = Unlocked(@, MutexValue(p, i))]
    /\ age' = [age EXCEPT ![ses[p][i].gid] =
                   IF Owns(MutexValue(p, i), ses[p][i].gid) THEN Expiry ELSE @]
    /\ ses' = [ses EXCEPT ![p][i].pc = "delete"]
    /\ UNCHANGED <<state, playlist, channel, orphan, procVars, thr, ctlVars, watchVars, runVars, obsVars>>

\* delete(p.vcCancels, g.ID): removes whatever is registered for the guild.
SessDelete(p, i) ==
    /\ alive[p]
    /\ ses[p][i].pc = "delete"
    /\ vcCancels' = [vcCancels EXCEPT ![p][ses[p][i].gid] = 0]
    /\ ses' = [ses EXCEPT ![p][i].pc = "wgDone"]
    /\ UNCHANGED <<storeVars, alive, ctxDone, isShuttingDown, runPc, vcWaitGroup, thr, ctlVars, watchVars, runVars, obsVars>>

\* p.vcWaitGroup.Done(): the goroutine ends.
SessDone(p, i) ==
    /\ alive[p]
    /\ ses[p][i].pc = "wgDone"
    /\ vcWaitGroup' = [vcWaitGroup EXCEPT ![p] = @ - 1]
    /\ ses' = [ses EXCEPT ![p][i] = NoSession]
    /\ UNCHANGED <<storeVars, alive, ctxDone, isShuttingDown, runPc, vcCancels, thr, ctlVars, watchVars, runVars, obsVars>>

\* ---- Player.PlayTrack, the goroutine feeding the voice connection -------

\* One pass of the send loop: ctx is not done, a packet is read and handed to
\* vc.OpusSend (which takes packets only while the connection is open).
PlayTrackSend(p, i) ==
    /\ alive[p]
    /\ ses[p][i].pt = "run"
    /\ ~ses[p][i].cancelled
    /\ ses[p][i].vc
    /\ ses[p][i].sent < MaxFrames
    /\ ses' = [ses EXCEPT ![p][i].sent = @ + 1]
    /\ UNCHANGED <<storeVars, procVars, thr, ctlVars, watchVars, runVars, obsVars>>

\* PlayTrack returns (ctx done, EOF, or an error) and its result goes to playError.
PlayTrackReturn(p, i) ==
    /\ alive[p]
    /\ ses[p][i].pt = "run"
    /\ ses' = [ses EXCEPT ![p][i].pt = "none", ![p][i].playErr = TRUE, ![p][i].sent = 0]
    /\ UNCHANGED <<storeVars, procVars, thr, ctlVars, watchVars, runVars, obsVars>>

\* ---- Player.Run, shutdown and crash -------------------------------------

\* The shutdown signal: main cancels the context handed to Run.
Shutdown(p) ==
    /\ alive[p]
    /\ ~ctxDone[p]
    /\ ctxDone' = [ctxDone EXCEPT ![p] = TRUE]
    /\ UNCHANGED <<storeVars, alive, isShuttingDown, runPc, vcCancels, vcWaitGroup, thr, ses, ctlVars, watchVars, runVars, obsVars>>

\* <-ctx.Done(); p.isShuttingDown = true
RunShutdown(p) ==
    /\ alive[p]
    /\ runPc[p] = "run"
    /\ ctxDone[p]
    /\ isShuttingDown' = [isShuttingDown EXCEPT ![p] = TRUE]
    /\ runPc' = [runPc EXCEPT ![p] = "wait"]
    /\ UNCHANGED <<storeVars, alive, ctxDone, vcCancels, vcWaitGroup, thr, ses, ctlVars, watchVars, runVars, obsVars>>

\* p.vcWaitGroup.Wait() returns once the counter is zero, and Run returns.
RunReturn(p) ==
    /\ alive[p]
    /\ runPc[p] = "wait"
    /\ vcWaitGroup[p] = 0
    /\ runPc' = [runPc EXCEPT ![p] = "returned"]
    /\ UNCHANGED <<storeVars, alive, ctxDone, isShuttingDown, vcCancels, vcWaitGroup, thr, ses, ctlVars, watchVars, runVars, obsVars>>

\* The process dies (killed, or exits after Run returned): its goroutines and
\* memory are gone, a lease it holds stays in the store until it expires.
Crash(p) ==
    /\ alive[p]
    /\ alive' = [alive EXCEPT ![p] = FALSE]
    /\ ctxDone' = [ctxDone EXCEPT ![p] = FALSE]
    /\ isShuttingDown' = [isShuttingDown EXCEPT ![p] = FALSE]
    /\ runPc' = [runPc EXCEPT ![p] = "dead"]
    /\ vcCancels' = [vcCancels EXCEPT ![p] = [g \in DOMAIN vcCancels[p] |-> 0]]
    /\ vcWaitGroup' = [vcWaitGroup EXCEPT ![p] = 0]
    /\ thr' = [thr EXCEPT ![p] = [i \in DOMAIN thr[p] |-> NoThread]]
    /\ ses' = [ses EXCEPT ![p] = [i \in DOMAIN ses[p] |-> NoSession]]
    /\ orphan' = [g \in DOMAIN orphan |->
                    orphan[g] \/ \E l \in lock[g] : l.val[1] = p]
    /\ delivered' = [x \in DOMAIN delivered |-> IF x = p THEN <<>> ELSE delivered[x]]
    /\ UNCHANGED <<state, playlist, channel, lock, age, ctlVars, watchVars, runVars, attempts, pushed, snapshot, pending>>

\* ---- the Responder and other writers of the store -----------------------

LPush(q, t) == <<t>> \o q

\* RPUSH: the envelope goes to the tail of the list.
RPush(q, t) == Append(q, t)

\* RPUSH playlist <envelope>
EnvPush(g, t) ==
    /\ Len(playlist[g]) < MaxQueue
    /\ playlist' = [playlist EXCEPT ![g] = RPush(@, t)]
    /\ pushed' = Counted(pushed, g)
    /\ UNCHANGED <<state, channel, lock, age, orphan, procVars, thr, ses, ctlVars, watchVars, runVars, attempts, snapshot, delivered, pending>>

\* SET channel <voice channel id>
EnvSetChannel(g) ==
    /\ channel[g] # "c1"
    /\ channel' = [channel EXCEPT ![g] = "c1"]
    /\ UNCHANGED <<state, playlist, lock, age, orphan, procVars, thr, ses, ctlVars, watchVars, runVars, obsVars>>

\* SET state playing | stopped
EnvSetState(g, v) ==
    /\ state[g] # v
    /\ g \in DOMAIN pending => pending[g] < MaxPending
    /\ state' = [state EXCEPT ![g] = v]
    /\ pending' = Notified(pending, g)
    /\ UNCHANGED <<playlist, channel, lock, age, orphan, procVars, thr, ses, ctlVars, watchVars, runVars, attempts, pushed, snapshot, delivered>>

\* The steps of the Fulfill calls and player goroutines of process p.
PlayerStep(p) ==
    \/ \E i \in DOMAIN thr[p], g \in DOMAIN state : FulfillGet(p, i, g)
    \/ \E i \in DOMAIN thr[p] : FulfillStopped(p, i)
    \/ \E i \in DOMAIN thr[p] : FulfillCheck(p, i)
    \/ \E i \in DOMAIN thr[p] : FulfillLock(p, i)
    \/ \E i \in DOMAIN thr[p] : FulfillWake(p, i)
    \/ \E i \in DOMAIN thr[p] : FulfillRegister(p, i)
    \/ \E i \in DOMAIN thr[p] : SessStart(p, i)
    \/ \E i \in DOMAIN thr[p] : PlayPeek(p, i)
    \/ \E i \in DOMAIN thr[p] : PlayClearState(p, i)
    \/ \E i \in DOMAIN thr[p] : PlayTrackDone(p, i)
    \/ \E i \in DOMAIN thr[p] : PlayCancelled(p, i)
    \/ \E i \in DOMAIN thr[p] : PlayExtend(p, i)
    \/ \E i \in DOMAIN thr[p] : PlayReturn(p, i)
    \/ \E i \in DOMAIN thr[p] : SessUnlock(p, i)
    \/ \E i \in DOMAIN thr[p] : SessDelete(p, i)
    \/ \E i \in DOMAIN thr[p] : SessDone(p, i)
    \/ \E i \in DOMAIN thr[p] : PlayTrackSend(p, i)
    \/ \E i \in DOMAIN thr[p] : PlayTrackReturn(p, i)

EnvStep ==
    \/ \E g \in Guilds, t \in Tracks : EnvPush(g, t)
    \/ \E g \in Guilds, v \in {StatePlaying, StateStopped} : EnvSetState(g, v)

\* The cluster: every process reconciles and plays, and any of them may die.
\* (Run's shutdown steps read and write nothing these steps read; they are
\* part of NextShutdown.)
Next ==
    \/ Tick
    \/ EnvStep
    \/ \E p \in Procs : PlayerStep(p)
    \/ \E p \in Procs : Crash(p)

Spec == Init /\ [][Next]_vars

\* The lock key of the guild holds a value that a Fulfill call of another
\* process generated. A lease of p1 can only have gone by expiring.
HeldByOther(p, g) == \E l \in lock[g] : l.val[1] # p

\* C39: mutex.Unlock() of a session whose lease expired and was claimed by
\* another process leaves the lock key as it is: the other process's lease
\* is neither removed nor shortened.
C39_LateUnlockSparesOtherLease ==
    [][\A p \in Procs : \A i \in DOMAIN ses[p] :
          (SessUnlock(p, i) /\ HeldByOther(p, ses[p][i].gid))
              => /\ lock'[ses[p][i].gid] = lock[ses[p][i].gid]
                 /\ age'[ses[p][i].gid] = age[ses[p][i].gid]]_vars

\* Play has returned and the goroutine calls mutex.Unlock() next, while the
\* lock key no longer holds its value but the lease of the other process.
C39_UnlockingUnderOtherLease ==
    \E p \in Procs : \E i \in DOMAIN ses[p] :
        /\ alive[p]
        /\ ses[p][i].pc = "unlock"
        /\ ~Owns(MutexValue(p, i), ses[p][i].gid)
        /\ HeldByOther(p, ses[p][i].gid)

\* ---- one process, from start to shutdown --------------------------------
Local == "p1"

\* The other instance was killed a moment ago: the lease it had just claimed is
\* still in the store, and no channel has been chosen yet.
InitShutdown ==
    /\ state = [g \in Guilds |-> ""]
    /\ playlist = [g \in Guilds |-> <<>>]
    /\ channel = [g \in Guilds |-> ""]
    /\ lock = [g \in Guilds |-> {Lease(MutexValue(CHOOSE p \in Procs : p # Local, 1))}]
    /\ age = [g \in Guilds |-> 0]
    /\ orphan = [g \in Guilds |-> TRUE]
    /\ alive = [p \in Procs |-> p = Local]
    /\ ctxDone = [p \in Procs |-> FALSE]
    /\ isShuttingDown = [p \in Procs |-> FALSE]
    /\ runPc = [p \in Procs |-> IF p = Local THEN "run" ELSE "dead"]
    /\ vcCancels = [p \in Procs |-> [g \in Guilds |-> 0]]
    /\ vcWaitGroup = [p \in Procs |-> 0]
    /\ thr = [p \in Procs |-> [i \in Slots |-> NoThread]]
    /\ ses = [p \in Procs |-> [i \in Slots |-> NoSession]]
    /\ cState = [g \in Guilds |-> ""]
    /\ cCtxDone = FALSE
    /\ cRunPc = "loop"
    /\ cCancels = [g \in Guilds |-> 0]
    /\ cWg = 0
    /\ cPlayers = [k \in 1..MaxPlayers |-> NoPlayer]
    /\ wSubs = {}
    /\ wCh = <<>>
    /\ wPc = "recv"
    /\ wCtxDone = FALSE
    /\ wLog = NotObserved
    /\ rp = NoRun
    /\ rStop = FALSE
    /\ rCtxDone = FALSE
    /\ rPlays = <<>>
    /\ pipe = NoPipe
    /\ attempts = NotObserved
    /\ pushed = NotObserved
    /\ snapshot = NotObserved
    /\ delivered = NotObserved
    /\ pending = NotObserved

NextShutdown ==
    \/ Tick
    \/ EnvStep
    \/ \E g \in Guilds : EnvPush(g, Malformed)
    \/ \E g \in Guilds : EnvSetChannel(g)
    \/ PlayerStep(Local)
    \/ Shutdown(Local)
    \/ RunShutdown(Local)
    \/ RunReturn(Local)

SpecShutdown == InitShutdown /\ [][NextShutdown]_vars

\* ---- PlayerController (src/unnamed/part_003) and its Player.Run ---------

\* The context Fulfill hands to the player: context.WithCancel(ctx) of Run's
\* ctx, done when its own cancel was called or when Run's ctx is done.
PlayerCtxDone(k) == cPlayers[k].cancelled \/ cCtxDone

\* The state key is written (by the Responder or an operator).
CtlSetState(g, v) ==
    /\ cState[g] # v
    /\ cState' = [cState EXCEPT ![g] = v]
    /\ UNCHANGED <<playerVars, watchVars, runVars, cCtxDone, cRunPc, cCancels, cWg, cPlayers>>

\* PlayerController.Fulfill(ctx, gid): stopped or unset cancels the registered
\* player; playing creates a Player, stores its cancel under the guild,
\* wg.Add(1), and starts its goroutine.
Fulfilled(g) ==
    IF cState[g] = StatePlaying
    THEN \E k \in 1..MaxPlayers :
            /\ cPlayers[k].pc = "none"
            /\ cPlayers' = [cPlayers EXCEPT ![k] =
                               [pc |-> "run", gid |-> g, cancelled |-> FALSE]]
            /\ cCancels' = [cCancels EXCEPT ![g] = k]
            /\ cWg' = cWg + 1
    ELSE /\ cPlayers' = IF cCancels[g] # 0
                        THEN [cPlayers EXCEPT ![cCancels[g]].cancelled = TRUE]
                        ELSE cPlayers
         /\ UNCHANGED <<cCancels, cWg>>

\* Run's loop receives a key from the watcher and calls Fulfill(ctx, gid).
CtlFulfill(g) ==
    /\ cRunPc = "loop"
    /\ Fulfilled(g)
    /\ UNCHANGED <<playerVars, watchVars, runVars, cState, cCtxDone, cRunPc>>

\* Player.Run: after a tick of its 2s ticker it finds ctx done and leaves the loop.
CtlPlayerExit(k) ==
    /\ cPlayers[k].pc = "run"
    /\ PlayerCtxDone(k)
    /\ cPlayers' = [cPlayers EXCEPT ![k].pc = "delete"]
    /\ UNCHANGED <<playerVars, watchVars, runVars, cState, cCtxDone, cRunPc, cCancels, cWg>>

\* delete(c.cancels, gid)
CtlPlayerDelete(k) ==
    /\ cPlayers[k].pc = "delete"
    /\ cCancels' = [cCancels EXCEPT ![cPlayers[k].gid] = 0]
    /\ cPlayers' = [cPlayers EXCEPT ![k].pc = "done"]
    /\ UNCHANGED <<playerVars, watchVars, runVars, cState, cCtxDone, cRunPc, cWg>>

\* c.wg.Done(): the goroutine ends.
CtlPlayerDone(k) ==
    /\ cPlayers[k].pc = "done"
    /\ cWg' = cWg - 1
    /\ cPlayers' = [cPlayers EXCEPT ![k] = NoPlayer]
    /\ UNCHANGED <<playerVars, watchVars, runVars, cState, cCtxDone, cRunPc, cCancels>>

\* The shutdown signal: main cancels Run's context.
CtlShutdown ==
    /\ ~cCtxDone
    /\ cCtxDone' = TRUE
    /\ UNCHANGED <<playerVars, watchVars, runVars, cState, cRunPc, cCancels, cWg, cPlayers>>

\* select case <-ctx.Done(): break loop
CtlRunBreak ==
    /\ cRunPc = "loop"
    /\ cCtxDone
    /\ cRunPc' = "wait"
    /\ UNCHANGED <<playerVars, watchVars, runVars, cState, cCtxDone, cCancels, cWg, cPlayers>>

\* c.wg.Wait() returns, and Run with it.
CtlRunReturn ==
    /\ cRunPc = "wait"
    /\ cWg = 0
    /\ cRunPc' = "returned"
    /\ UNCHANGED <<playerVars, watchVars, runVars, cState, cCtxDone, cCancels, cWg, cPlayers>>

NextCtl ==
    \/ \E g \in Guilds, v \in {StatePlaying, StateStopped} : CtlSetState(g, v)
    \/ \E g \in Guilds : CtlFulfill(g)
    \/ \E k \in 1..MaxPlayers : CtlPlayerExit(k)
    \/ \E k \in 1..MaxPlayers : CtlPlayerDelete(k)
    \/ \E k \in 1..MaxPlayers : CtlPlayerDone(k)
    \/ CtlShutdown
    \/ CtlRunBreak
    \/ CtlRunReturn

SpecCtl == Init /\ [][NextCtl]_vars

\* ---- properties of the lease (checked under Spec) -----------------------

\* C1: for every guild, the store holds at most one live (not expired)
\* player_lock lease, whatever the interleaving of Lock, Extend, Unlock,
\* expiry and crash.
C1_AtMostOneLiveLease == \A g \in Guilds : Cardinality(lock[g]) <= 1

\* A live lease of one process while another process's Lock attempt has just
\* failed and that Fulfill sleeps before its next attempt.
C1_Contended ==
    \E g \in Guilds, p \in Procs, q \in Procs, i \in Slots :
        /\ p # q
        /\ \E j \in Slots : Owns(MutexValue(p, j), g)
        /\ thr[q][i].pc = "sleep"
        /\ thr[q][i].gid = g

\* The process's PlayTrack goroutine is feeding a voice connection of the guild.
Streaming(p, g) ==
    \E i \in Slots : ses[p][i].gid = g /\ ses[p][i].pt = "run" /\ ses[p][i].vc

\* The process holds a live lease of the guild.
HoldsLease(p, g) == \E i \in Slots : Owns(MutexValue(p, i), g)

\* C2: for every guild at most one process is streaming a playback session,
\* and a process that streams holds a live lease of the guild.
C2_OneStreamerHoldingLease ==
    \A g \in Guilds :
        /\ Cardinality({p \in Procs : Streaming(p, g)}) <= 1
        /\ \A p \in Procs : Streaming(p, g) => HoldsLease(p, g)

\* C3: once a session's mutex.Extend() has returned false, the session's
\* context is cancelled and its PlayTrack hands no further packet to the
\* voice connection.
C3_NoFrameAfterFailedExtend ==
    [][\A p \in Procs, i \in Slots :
          ses[p][i].extFailed =>
              /\ ses[p][i].cancelled
              /\ ses'[p][i].sent <= ses[p][i].sent]_vars

\* Process p's Fulfill call i makes one mutex.Lock() attempt in this step.
LockAttempt(p, i) ==
    /\ thr[p][i].pc = "lock"
    /\ alive'[p]
    /\ thr'[p][i].pc # "lock"

\* C9: while the lease in the store is the one a crashed process left behind,
\* a Lock attempt of another process fails when fewer than Expiry seconds have
\* passed since the crashed process's last Lock or Extend, and succeeds when
\* Expiry seconds or more have passed.
C9_CrashRecoveryTiming ==
    [][\A p \in Procs, i \in Slots :
          (LockAttempt(p, i) /\ orphan[thr[p][i].gid]) =>
              IF age[thr[p][i].gid] < Expiry
              THEN thr'[p][i].pc = "sleep" /\ lock' = lock
              ELSE thr'[p][i].pc = "register"
                   /\ Owns(MutexValue(p, i), thr[p][i].gid)']_vars

\* The holder of the lease has crashed, the lease is still live, and the
\* surviving process's attempt has failed.
C9_FailedBeforeExpiry ==
    \E g \in Guilds, p \in Procs, i \in Slots :
        /\ orphan[g]
        /\ age[g] < Expiry
        /\ lock[g] # {}
        /\ alive[p]
        /\ thr[p][i].pc = "sleep"
        /\ thr[p][i].gid = g

\* ---- properties of shutdown (checked under SpecShutdown) ----------------

\* C5: Player.Run has not returned while a player goroutine spawned by the
\* process is still running or its vcCancels entry is still registered.
C5_RunReturnsAfterSessions ==
    \A p \in Procs :
        runPc[p] = "returned" =>
            /\ \A i \in Slots : ses[p][i].pc = "none"
            /\ \A g \in Guilds : vcCancels[p][g] = 0

\* C6: once Run's context is cancelled, no Fulfill call of the process
\* registers and spawns a new player goroutine.
C6_NoSpawnAfterShutdown ==
    [][\A p \in Procs, i \in Slots :
          ctxDone[p] => ~(ses[p][i].pc = "none" /\ ses'[p][i].pc = "spawned")]_vars

\* C7: a session that was playing a track when Run's context was cancelled
\* does not start the next track of the playlist once that track has ended.
C7_NoNextTrackAfterShutdown ==
    [][\A p \in Procs, i \in Slots :
          (ctxDone[p] /\ ses[p][i].drained) =>
              ~(ses[p][i].pc = "peek" /\ ses'[p][i].pc = "inner")]_vars

\* ---- properties of the PlayerController (checked under SpecCtl) ---------

\* The guild has a registered player whose context is not cancelled.
CtlRegistered(g) ==
    /\ cCancels[g] # 0
    /\ cPlayers[cCancels[g]].pc = "run"
    /\ ~cPlayers[cCancels[g]].cancelled

\* C4: a Fulfill that finds the state playing while a player is registered
\* for the guild spawns no further player.
C4_SecondFulfillSpawnsNothing ==
    [][\A g \in Guilds :
          (CtlRegistered(g) /\ cState[g] = StatePlaying) =>
              \A k \in 1..MaxPlayers :
                  ~(cPlayers[k].pc = "none" /\ cPlayers'[k].pc = "run"
                    /\ cPlayers'[k].gid = g)]_vars

\* C8: the context of a running player is done only when its own cancel was
\* called; cancelling Run's context alone does not end it.
C8_ShutdownDoesNotCancel ==
    \A k \in 1..MaxPlayers :
        (cPlayers[k].pc = "run" /\ PlayerCtxDone(k)) => cPlayers[k].cancelled

\* ---- the Lock retry loop under fair scheduling --------------------------

\* A track is queued and the state is playing; nobody writes the store but
\* the players.
InitLive ==
    /\ state = [g \in Guilds |-> StatePlaying]
    /\ playlist = [g \in Guilds |-> <<"A">>]
    /\ channel = [g \in Guilds |-> "c1"]
    /\ lock = [g \in Guilds |-> {}]
    /\ age = [g \in Guilds |-> Expiry]
    /\ orphan = [g \in Guilds |-> FALSE]
    /\ alive = [p \in Procs |-> TRUE]
    /\ ctxDone = [p \in Procs |-> FALSE]
    /\ isShuttingDown = [p \in Procs |-> FALSE]
    /\ runPc = [p \in Procs |-> "run"]
    /\ vcCancels = [p \in Procs |-> [g \in Guilds |-> 0]]
    /\ vcWaitGroup = [p \in Procs |-> 0]
    /\ thr = [p \in Procs |-> [i \in Slots |-> NoThread]]
    /\ ses = [p \in Procs |-> [i \in Slots |-> NoSession]]
    /\ cState = [g \in Guilds |-> ""]
    /\ cCtxDone = FALSE
    /\ cRunPc = "loop"
    /\ cCancels = [g \in Guilds |-> 0]
    /\ cWg = 0
    /\ cPlayers = [k \in 1..MaxPlayers |-> NoPlayer]
    /\ wSubs = {}
    /\ wCh = <<>>
    /\ wPc = "recv"
    /\ wCtxDone = FALSE
    /\ wLog = NotObserved
    /\ rp = NoRun
    /\ rStop = FALSE
    /\ rCtxDone = FALSE
    /\ rPlays = <<>>
    /\ pipe = NoPipe
    /\ attempts = NotObserved
    /\ pushed = NotObserved
    /\ snapshot = NotObserved
    /\ delivered = NotObserved
    /\ pending = NotObserved

NextLive ==
    \/ Tick
    \/ \E p \in Procs : PlayerStep(p)
    \/ \E p \in Procs : Crash(p)

\* The steps of a Fulfill call that is past its registry check.
FulfillStep(p, i) ==
    \/ FulfillLock(p, i)
    \/ FulfillWake(p, i)
    \/ FulfillRegister(p, i)

\* The steps of a player goroutine.
SessionStep(p, i) ==
    \/ SessStart(p, i)
    \/ PlayPeek(p, i)
    \/ PlayClearState(p, i)
    \/ PlayTrackDone(p, i)
    \/ PlayCancelled(p, i)
    \/ PlayExtend(p, i)
    \/ PlayReturn(p, i)
    \/ SessUnlock(p, i)
    \/ SessDelete(p, i)
    \/ SessDone(p, i)

\* Time passes, and the Go scheduler runs every goroutine that can take a
\* step: the Fulfill call, the player goroutine, and PlayTrack, whose track is
\* finite.  Play's select picks at random among its ready cases, so a case
\* that stays ready (playError, ctx.Done()) is taken in the end.
FairLive ==
    /\ WF_vars(Tick)
    /\ \A p \in Procs, i \in Slots : WF_vars(FulfillStep(p, i))
    /\ \A p \in Procs, i \in Slots : WF_vars(SessionStep(p, i))
    /\ \A p \in Procs, i \in Slots : WF_vars(PlayTrackReturn(p, i))
    /\ \A p \in Procs, i \in Slots : WF_vars(PlayTrackDone(p, i))
    /\ \A p \in Procs, i \in Slots : WF_vars(PlayCancelled(p, i))

SpecLive == InitLive /\ [][NextLive]_vars /\ FairLive

\* A Fulfill call of process p is in the Lock retry loop, and every other
\* process has crashed or exited.
WaitsAlone(p) ==
    /\ alive[p]
    /\ \E i \in Slots : thr[p][i].pc \in {"lock", "sleep"}
    /\ \A q \in Procs \ {p} : ~alive[q]

\* C10: a process whose Fulfill found the state playing and is retrying Lock
\* after the other processes crashed or exited eventually claims the lease and
\* spawns a player goroutine (unless the process itself dies first).
C10_RetriesUntilAcquired ==
    \A p \in Procs :
        WaitsAlone(p) ~> (~alive[p] \/ \E i \in Slots : ses[p][i].pc = "spawned")

\* The holder of the lease has crashed; the surviving process has made a
\* failed attempt and sleeps before the next one.
C10_WaitingForDeadHolder ==
    \E g \in Guilds, p \in Procs, i \in Slots :
        /\ WaitsAlone(p)
        /\ thr[p][i].pc = "sleep"
        /\ thr[p][i].gid = g
        /\ orphan[g]
        /\ lock[g] # {}

\* ---- one session draining the playlist (checked under SpecFifo) ---------

\* The envelopes the command handler pushes, in this order.
FifoOrder == <<"A", "B", "C">>

\* One process with a single Fulfill call at a time, started right after the
\* other instance was killed; an empty playlist, and the observer attached to
\* every guild.
InitFifo ==
    /\ state = [g \in Guilds |-> ""]
    /\ playlist = [g \in Guilds |-> <<>>]
    /\ channel = [g \in Guilds |-> "c1"]
    /\ lock = [g \in Guilds |-> {Lease(MutexValue(CHOOSE p \in Procs : p # Local, 1))}]
    /\ age = [g \in Guilds |-> 0]
    /\ orphan = [g \in Guilds |-> TRUE]
    /\ alive = [p \in Procs |-> p = Local]
    /\ ctxDone = [p \in Procs |-> FALSE]
    /\ isShuttingDown = [p \in Procs |-> FALSE]
    /\ runPc = [p \in Procs |-> IF p = Local THEN "run" ELSE "dead"]
    /\ vcCancels = [p \in Procs |-> [g \in Guilds |-> 0]]
    /\ vcWaitGroup = [p \in Procs |-> 0]
    /\ thr = [p \in Procs |-> [i \in {1} |-> NoThread]]
    /\ ses = [p \in Procs |-> [i \in {1} |-> NoSession]]
    /\ cState = [g \in Guilds |-> ""]
    /\ cCtxDone = FALSE
    /\ cRunPc = "loop"
    /\ cCancels = [g \in Guilds |-> 0]
    /\ cWg = 0
    /\ cPlayers = [k \in 1..MaxPlayers |-> NoPlayer]
    /\ wSubs = {}
    /\ wCh = <<>>
    /\ wPc = "recv"
    /\ wCtxDone = FALSE
    /\ wLog = NotObserved
    /\ rp = NoRun
    /\ rStop = FALSE
    /\ rCtxDone = FALSE
    /\ rPlays = <<>>
    /\ pipe = NoPipe
    /\ attempts = [g \in Guilds |-> <<>>]
    /\ pushed = [g \in Guilds |-> 0]
    /\ snapshot = NotObserved
    /\ delivered = NotObserved
    /\ pending = NotObserved

\* The command handler queues the next envelope of FifoOrder.
FifoPush(g) ==
    /\ pushed[g] < Len(FifoOrder)
    /\ EnvPush(g, FifoOrder[pushed[g] + 1])

NextFifo ==
    \/ Tick
    \/ \E g \in Guilds : FifoPush(g)
    \/ \E g \in Guilds, v \in {StatePlaying, StateStopped} : EnvSetState(g, v)
    \/ PlayerStep(Local)

SpecFifo == InitFifo /\ [][NextFifo]_vars

\* C11: the playback attempts of a session draining the playlist follow the
\* order in which the envelopes were pushed, each envelope attempted once and
\* none skipped: the attempts are a run of consecutive entries of FifoOrder.
C11_AttemptsInPushOrder ==
    \A g \in Guilds :
        \E k \in 0..Len(FifoOrder) :
            /\ k + Len(attempts[g]) <= Len(FifoOrder)
            /\ \A n \in 1..Len(attempts[g]) : attempts[g][n] = FifoOrder[k + n]

\* One session has attempted A, B and C, in this order.
C11_AllThreeAttempted == \E g \in Guilds : attempts[g] = FifoOrder

\* ---- malformed entries (checked under SpecMalformed) --------------------

\* One process started right after the other instance was killed, with the
\* given playlist, channel, Fulfill slots and observer.
InitRestarted(q, c, slots, a, n, sn, d, nt) ==
    /\ state = [g \in Guilds |-> ""]
    /\ playlist = [g \in Guilds |-> q]
    /\ channel = [g \in Guilds |-> c]
    /\ lock = [g \in Guilds |-> {Lease(MutexValue(CHOOSE p \in Procs : p # Local, 1))}]
    /\ age = [g \in Guilds |-> 0]
    /\ orphan = [g \in Guilds |-> TRUE]
    /\ alive = [p \in Procs |-> p = Local]
    /\ ctxDone = [p \in Procs |-> FALSE]
    /\ isShuttingDown = [p \in Procs |-> FALSE]
    /\ runPc = [p \in Procs |-> IF p = Local THEN "run" ELSE "dead"]
    /\ vcCancels = [p \in Procs |-> [g \in Guilds |-> 0]]
    /\ vcWaitGroup = [p \in Procs |-> 0]
    /\ thr = [p \in Procs |-> [i \in slots |-> NoThread]]
    /\ ses = [p \in Procs |-> [i \in slots |-> NoSession]]
    /\ cState = [g \in Guilds |-> ""]
    /\ cCtxDone = FALSE
    /\ cRunPc = "loop"
    /\ cCancels = [g \in Guilds |-> 0]
    /\ cWg = 0
    /\ cPlayers = [k \in 1..MaxPlayers |-> NoPlayer]
    /\ wSubs = {}
    /\ wCh = <<>>
    /\ wPc = "recv"
    /\ wCtxDone = FALSE
    /\ wLog = NotObserved
    /\ rp = NoRun
    /\ rStop = FALSE
    /\ rCtxDone = FALSE
    /\ rPlays = <<>>
    /\ pipe = NoPipe
    /\ attempts = a
    /\ pushed = n
    /\ snapshot = sn
    /\ delivered = d
    /\ pending = nt

\* The playlist is [malformed, B]; the attempts of every guild are observed.
InitMalformed ==
    InitRestarted(<<Malformed, "B">>, "c1", {1}, [g \in Guilds |-> <<>>], NotObserved,
                  NotObserved, NotObserved, NotObserved)

NextMalformed ==
    \/ Tick
    \/ \E g \in Guilds : EnvPush(g, Malformed)
    \/ \E g \in Guilds, v \in {StatePlaying, StateStopped} : EnvSetState(g, v)
    \/ PlayerStep(Local)

SpecMalformed == InitMalformed /\ [][NextMalformed]_vars

\* C12: a malformed head is removed by exactly one pop and without a playback
\* attempt, the session then examines the next head; a playback attempt is
\* made only on a well-formed head, which stays in the list; and the session
\* never leaves its read loop past a malformed head.
C12_MalformedHeadDiscarded ==
    [][\A g \in Guilds :
          /\ (playlist[g] # <<>> /\ Head(playlist[g]) = Malformed
                /\ Len(playlist'[g]) < Len(playlist[g])) =>
                 /\ playlist'[g] = Tail(playlist[g])
                 /\ attempts'[g] = attempts[g]
                 /\ \A i \in DOMAIN ses[Local] :
                        ses[Local][i].pc = "peek" => ses'[Local][i].pc = "peek"
          /\ (Len(attempts'[g]) > Len(attempts[g])) =>
                 /\ attempts'[g] = Append(attempts[g], Head(playlist[g]))
                 /\ Head(playlist[g]) # Malformed
                 /\ playlist'[g] = playlist[g]
          /\ \A i \in DOMAIN ses[Local] :
                 (ses[Local][i].pc = "peek" /\ ses'[Local][i].pc # "peek"
                    /\ playlist[g] # <<>>) => Head(playlist[g]) # Malformed]_vars

\* From [malformed, B]: the malformed entry is gone, B is the head and the
\* only attempt of the session, which is playing it.
C12_OnlyBAttempted ==
    \E g \in Guilds, i \in DOMAIN ses[Local] :
        /\ attempts[g] = <<"B">>
        /\ playlist[g] = <<"B">>
        /\ ses[Local][i].pc = "inner"
        /\ ses[Local][i].cur = "B"

\* ---- stopping a playing session (checked under SpecStop) ----------------

\* The cancellations of every guild's playing session are observed.
InitStop ==
    InitRestarted(<<>>, "c1", {1}, NotObserved, NotObserved, [g \in Guilds |-> <<>>], NotObserved, NotObserved)

NextStop ==
    \/ Tick
    \/ EnvStep
    \/ PlayerStep(Local)

SpecStop == InitStop /\ [][NextStop]_vars

\* q starts with the entries of r, in the same order.
StartsWith(q, r) == Len(r) <= Len(q) /\ \A n \in 1..Len(r) : q[n] = r[n]

\* The guild's session has ended: Play has returned and closed the voice connection.
Ended(p, i) == ses[p][i].pc \in {"unlock", "delete", "wgDone", "none"}

\* C13: once a session that was cancelled while playing a track has ended, the
\* playlist is what it was when the session was cancelled, plus tail pushes:
\* the track in flight has not been popped.
C13_CancelKeepsInFlightTrack ==
    \A g \in Guilds :
        (snapshot[g] # <<>> /\ \A i \in DOMAIN ses[Local] : Ended(Local, i)) =>
            StartsWith(playlist[g], snapshot[g][1])

\* A Fulfill call has read "playing" for the guild while no session is
\* registered for it: it goes on to claim the lease and spawn a session.
PlayingTransition(p, i, g) ==
    thr[p][i].pc = "check" /\ thr[p][i].gid = g /\ vcCancels[p][g] = 0

\* C34: the stopped branch of Fulfill writes neither the playlist nor the
\* channel key; and the Fulfill call of a later change to "playing" finds at
\* the head of the playlist the track that was there when the stopped branch
\* cancelled the session.
C34_StoppedPathKeepsQueueHead ==
    /\ [][\A i \in DOMAIN thr[Local] :
             FulfillStopped(Local, i) => playlist' = playlist /\ channel' = channel]_vars
    /\ [](\A g \in Guilds : \A i \in DOMAIN thr[Local] :
             (snapshot[g] # <<>> /\ PlayingTransition(Local, i, g)) =>
                 StartsWith(playlist[g], <<Head(snapshot[g][1])>>))

\* ---- reconciling a guild that has nothing to play (checked under Spec) --

\* Nothing of the store, the registry or the sessions changes in this step.
NoEffect == storeVars' = storeVars /\ vcCancels' = vcCancels /\ ses' = ses

\* C14: a Fulfill that reads an unset state key for a guild without a
\* registered session takes the stopped branch and returns; neither the read
\* nor the branch changes the store, claims a lease, registers a handle or
\* spawns a session.
C14_UnsetStateChangesNothing ==
    [][\A p \in Procs, i \in Slots :
          /\ (thr[p][i].pc = "idle" /\ thr'[p][i].pc # "idle"
                /\ state[thr'[p][i].gid] = "") =>
                 thr'[p][i].pc = "stopped" /\ NoEffect
          /\ (thr[p][i].pc = "stopped" /\ thr'[p][i].pc # "stopped" /\ alive'[p]
                /\ vcCancels[p][thr[p][i].gid] = 0) =>
                 thr'[p][i] = NoThread /\ NoEffect]_vars

\* A Fulfill has read the unset state key of a guild that has no session in
\* its process and whose lock is free.
C14_ReconcilingUnset ==
    \E p \in Procs, i \in Slots, g \in Guilds :
        /\ thr[p][i].pc = "stopped"
        /\ thr[p][i].gid = g
        /\ state[g] = ""
        /\ vcCancels[p][g] = 0
        /\ ses[p][i].pc = "none"
        /\ lock[g] = {}

\* ---- from the state notification to the first track (SpecFifo) ----------

\* C15: the lease a Fulfill claims on the guild's player_lock key is written
\* with a TTL of Expiry seconds; the session it spawns runs its read loop only
\* with the voice connection to the stored channel open; and the track it
\* plays is the head of the playlist, which stays in the list while it plays.
C15_LeaseThenJoinThenHead ==
    \A g \in Guilds :
        /\ \A l \in lock[g] : l.ttl + age[g] = Expiry
        /\ \A i \in DOMAIN ses[Local] :
              ses[Local][i].gid = g =>
                  /\ ses[Local][i].pc \in {"peek", "empty", "inner"} =>
                         ses[Local][i].vc /\ channel[g] # ""
                  /\ ses[Local][i].pc = "inner" =>
                         /\ playlist[g] # <<>>
                         /\ ses[Local][i].cur = Head(playlist[g])

\* The lease has just been claimed or extended by the process, whose session
\* has joined the channel and is sending the first frames of the head entry A.
C15_StreamingHead ==
    \E g \in Guilds, i \in DOMAIN ses[Local] :
        /\ Owns(MutexValue(Local, i), g)
        /\ age[g] = 0
        /\ ses[Local][i].pc = "inner"
        /\ ses[Local][i].vc
        /\ ses[Local][i].pt = "run"
        /\ ses[Local][i].sent > 0
        /\ ses[Local][i].cur = "A"
        /\ playlist[g] = <<"A", "B">>
        /\ attempts[g] = <<"A">>

\* ---- lease renewal on the clock (SpecTimed) ------------------------------

\* One process whose local steps take no time: a Fulfill between its GET and
\* its return, a due retry, and a goroutine in Play's read loop, with a select
\* case ready, or past Play's return.
Busy(p) ==
    \E i \in DOMAIN thr[p] :
        \/ thr[p][i].pc \in {"stopped", "check", "lock", "register"}
        \/ thr[p][i].pc = "sleep" /\ thr[p][i].timer = 0
        \/ ses[p][i].pc \in {"peek", "empty", "ret", "unlock", "delete", "wgDone"}
        \/ /\ ses[p][i].pc = "inner"
           /\ ses[p][i].tick \/ ses[p][i].playErr \/ ses[p][i].cancelled

\* The clock advances only while the process waits: for a notification, for
\* the retry sleep, for GET channel and ChannelVoiceJoin to answer, or for the
\* ticker or PlayTrack inside the select.
TimedTick == ~Busy(Local) /\ Tick

InitTimed == InitRestarted(<<"A">>, "c1", {1}, NotObserved, NotObserved, NotObserved, NotObserved, NotObserved)

NextTimed ==
    \/ TimedTick
    \/ EnvStep
    \/ PlayerStep(Local)

SpecTimed == InitTimed /\ [][NextTimed]_vars

\* The goroutine is between its start and Play's return.
Running(p, i) == ses[p][i].pc \in {"spawned", "peek", "empty", "inner", "ret"}

\* C16: from the acquisition of the lease until Play returns, the lease of a
\* running session never expires: the lock key holds the session's value at
\* every instant, the time spent reading the channel and joining included.
C16_LeaseLiveWhileRunning ==
    \A i \in DOMAIN ses[Local] :
        Running(Local, i) => Owns(MutexValue(Local, i), ses[Local][i].gid)

\* ---- keyspace topics and the Watcher (SpecTopic) -------------------------

MaxDb == 10
MaxKeyLen == 3

\* Strings are sequences of characters.  The keys: every text of up to
\* MaxKeyLen characters over a letter and the separator ':'.
KeyChars == {"k", ":"}
Keys == UNION {[1..n -> KeyChars] : n \in 0..MaxKeyLen}
Dbs == 0..MaxDb

Digit(d) == <<"0", "1", "2", "3", "4", "5", "6", "7", "8", "9">>[d + 1]

RECURSIVE Decimal(_)
\* fmt's %d of a database index.
Decimal(n) == IF n < 10 THEN <<Digit(n)>> ELSE Decimal(n \div 10) \o <<Digit(n % 10)>>

TopicForKeyspaceEvent_NoSeparator(db, key) ==
    <<"_", "_", "k", "e", "y", "s", "p", "a", "c", "e", "@">> \o Decimal(db)
        \o <<"_", "_">> \o key

\* fmt.Sprintf("__keyspace@%d__:%s", db, key)
TopicForKeyspaceEvent(db, key) ==
    <<"_", "_", "k", "e", "y", "s", "p", "a", "c", "e", "@">> \o Decimal(db)
        \o <<"_", "_", ":">> \o key

RECURSIVE AfterFirstColon(_)
AfterFirstColon(t) ==
    IF t = <<>> THEN <<>>
    ELSE IF Head(t) = ":" THEN Tail(t) ELSE AfterFirstColon(Tail(t))

\* The key a topic is about: what follows the topic's prefix, which ends at
\* the first ':'.
KeyFromKeyspaceTopic(topic) == AfterFirstColon(topic)

\* Watcher.Subscribe(db, key): PS.Subscribe(TopicForKeyspaceEvent(db, key)).
\* The controller subscribes one key for each guild.
WatcherSubscribe(db, key) ==
    /\ Cardinality(wSubs) < Cardinality(Guilds)
    /\ wSubs' = wSubs \cup {[db |-> db, key |-> key, topic |-> TopicForKeyspaceEvent(db, key)]}
    /\ UNCHANGED <<playerVars, ctlVars, runVars, wCh, wPc, wCtxDone, wLog>>

\* Watcher.Unsubscribe(db, key): PS.Unsubscribe(TopicForKeyspaceEvent(db, key)).
WatcherUnsubscribe(db, key) ==
    /\ \E r \in wSubs : r.topic = TopicForKeyspaceEvent(db, key)
    /\ wSubs' = {r \in wSubs : r.topic # TopicForKeyspaceEvent(db, key)}
    /\ UNCHANGED <<playerVars, ctlVars, runVars, wCh, wPc, wCtxDone, wLog>>

EventKinds == {"subscription", "message"}

\* Run's goroutine is in PS.Receive(): it is not blocked in a send on ch (ch
\* is unbuffered), and has not returned.
Receiving ==
    /\ wPc = "recv"
    /\ wCh = <<>>
    /\ "seen" \in DOMAIN wLog => Len(wLog["seen"]) < MaxEvents

\* Watcher.Run: a redis.Subscription or redis.Message arrives on a subscribed
\* topic and the key taken from v.Channel is sent on ch.
WatcherReceive(kind, r) ==
    /\ Receiving
    /\ r \in wSubs
    /\ wCh' = <<[key |-> KeyFromKeyspaceTopic(r.topic), sub |-> r]>>
    /\ wLog' = Logged(Logged(wLog, "seen", [kind |-> kind, topic |-> r.topic]),
                      "sent", KeyFromKeyspaceTopic(r.topic))
    /\ UNCHANGED <<playerVars, ctlVars, runVars, wSubs, wPc, wCtxDone>>

AfterError_Return(done) == "closed"

\* case error: return (and close ch) when ctx is done, else log the error and
\* go on with the loop.
AfterError(done) == IF done THEN "closed" ELSE "recv"

\* Watcher.Run: PS.Receive() returns an error.
WatcherError ==
    /\ Receiving
    /\ wPc' = AfterError(wCtxDone)
    /\ wLog' = Logged(wLog, "seen", [kind |-> "error", topic |-> <<>>])
    /\ UNCHANGED <<playerVars, ctlVars, runVars, wSubs, wCh, wCtxDone>>

\* The context given to Run is cancelled.
WatcherCancel ==
    /\ ~wCtxDone
    /\ wCtxDone' = TRUE
    /\ UNCHANGED <<playerVars, ctlVars, runVars, wSubs, wCh, wPc, wLog>>

\* The reader of Run's channel takes the key.
WatcherTaken ==
    /\ wCh # <<>>
    /\ wCh' = <<>>
    /\ UNCHANGED <<playerVars, ctlVars, runVars, wSubs, wPc, wCtxDone, wLog>>

NextTopic ==
    \/ \E db \in Dbs, key \in Keys : WatcherSubscribe(db, key)
    \/ \E db \in Dbs, key \in Keys : WatcherUnsubscribe(db, key)
    \/ \E kind \in EventKinds, r \in wSubs : WatcherReceive(kind, r)
    \/ WatcherTaken

SpecTopic == Init /\ [][NextTopic]_vars

\* C17: the topic of every subscription is "__keyspace@<db>__:" followed by
\* the key, the key taken back out of that topic is the subscribed key, and so
\* is every key Run hands over, keys containing ':' included.
C17_TopicRoundTrip ==
    /\ \A r \in wSubs :
          /\ r.topic = <<"_", "_", "k", "e", "y", "s", "p", "a", "c", "e", "@">>
                          \o Decimal(r.db) \o <<"_", "_", ":">> \o r.key
          /\ KeyFromKeyspaceTopic(r.topic) = r.key
    /\ \A n \in 1..Len(wCh) : wCh[n].key = wCh[n].sub.key

\* Run hands over a key with two separators, subscribed in a database whose
\* index has two digits.
C17_ColonKeyDelivered ==
    /\ wCh # <<>>
    /\ wCh[1].key = <<"k", ":", ":">>
    /\ wCh[1].sub.db = 10
    /\ wCh[1].sub \in wSubs

\* ---- the controller's registry and its players (SpecCtl) -----------------

\* The player goroutine k is between its start and its delete(c.cancels, gid).
CtlLive(k) == cPlayers[k].pc \in {"run", "delete"}

\* C18: the registry holds a handle for a guild exactly when a player spawned
\* for the guild is live, and the handle is that player's: every handle names a
\* live player of its guild, and every live player is the one its guild's
\* handle names (so no player's removal takes away the handle of another).
C18_RegistryAgreesWithPlayers ==
    /\ \A g \in Guilds :
          cCancels[g] # 0 => CtlLive(cCancels[g]) /\ cPlayers[cCancels[g]].gid = g
    /\ \A k \in 1..MaxPlayers :
          CtlLive(k) => cCancels[cPlayers[k].gid] = k

\* ---- two Fulfill calls at once in one process (SpecPair) -----------------

\* The process runs up to two Fulfill calls at a time: the one HandleGuildCreate
\* makes and one ListenForStateKeyChanges starts with go p.Fulfill(g), or two
\* of the latter.  Nothing is pushed while they run.
InitPair == InitRestarted(<<"A">>, "c1", {1, 2}, NotObserved, NotObserved, NotObserved, NotObserved, NotObserved)

NextPair ==
    \/ TimedTick
    \/ \E g \in Guilds, v \in {StatePlaying, StateStopped} : EnvSetState(g, v)
    \/ PlayerStep(Local)

SpecPair == InitPair /\ [][NextPair]_vars

\* The goroutines of the process that run a session for the guild.
RunningFor(p, g) == {i \in DOMAIN ses[p] : Running(p, i) /\ ses[p][i].gid = g}

\* C19: however the Fulfill calls of one process interleave, at most one
\* session of the process runs for a guild at any instant.
C19_OneSessionPerGuild ==
    \A g \in Guilds : Cardinality(RunningFor(Local, g)) <= 1

\* ---- who removes the head of the playlist (SpecTimed) --------------------

\* The step is an LPOP by the goroutine: of the track whose PlayTrack has
\* returned, or of a malformed head.
Pops(p, i) ==
    \/ PlayTrackDone(p, i)
    \/ PlayPeek(p, i) /\ playlist' # playlist

\* C20: every LPOP on a guild's playlist is made by a session that holds the
\* guild's live lease at that moment, and the entry it removes after playing is
\* the entry it peeked.
C20_PopsOnlyUnderLease ==
    [][\A i \in DOMAIN ses[Local] :
          Pops(Local, i) =>
              /\ Owns(MutexValue(Local, i), ses[Local][i].gid)
              /\ ses[Local][i].pc = "inner" =>
                     ses[Local][i].cur = Head(playlist[ses[Local][i].gid])]_vars

\* ---- Player.Run of the later iteration (src/unnamed/part_006) ------------

MaxPlays == 2

\* The controller starts the player of a guild: go player.Run(ctx, stop).
RunStart(g) ==
    /\ rp.pc = "none"
    /\ rp' = [NoRun EXCEPT !.pc = "top", !.gid = g]
    /\ UNCHANGED <<playerVars, ctlVars, watchVars, rStop, rCtxDone, rPlays, pipe>>

\* Top of the loop: if cid == "" { cid = p.readChannelID() }
RunReadChannel ==
    /\ rp.pc = "top"
    /\ rp' = [rp EXCEPT !.pc = "join",
                        !.cid = IF rp.cid = "" THEN channel[rp.gid] ELSE rp.cid]
    /\ UNCHANGED <<playerVars, ctlVars, watchVars, rStop, rCtxDone, rPlays, pipe>>

\* if cid != "" && voiceState == nil: ChannelVoiceJoin; a failed join goes
\* back to the top of the loop with continue.
RunJoin ==
    /\ rp.pc = "join"
    /\ IF rp.cid # "" /\ rp.vs = ""
       THEN \E joined \in BOOLEAN :
               rp' = IF joined THEN [rp EXCEPT !.pc = "track", !.vs = rp.cid]
                     ELSE [rp EXCEPT !.pc = "top"]
       ELSE rp' = [rp EXCEPT !.pc = "track"]
    /\ UNCHANGED <<playerVars, ctlVars, watchVars, rStop, rCtxDone, rPlays, pipe>>

\* cancel(), where a sub-session was started: its context is done.
Cancelled(pp) == IF pp.resp \in {"none", "idle"} THEN pp ELSE [pp EXCEPT !.cancelled = TRUE]

\* subctx, c := context.WithCancel(context.Background());
\* packets = p.streamPackets(subctx, p.streamResponse(subctx, res)): the two
\* stage goroutines start, with n more reads of the body to succeed.
Started(pp, n) ==
    IF pp = NoPipe THEN pp
    ELSE [resp |-> "read", pkts |-> "select", cancelled |-> FALSE, left |-> n]

\* The track the player takes up after readFirstTrack returned t and the
\* media request was built and answered.
TakenUp(t) == t

\* if voiceState != nil && voiceState.Ready && track == nil: readFirstTrack.
\* An empty playlist and a malformed head (which readFirstTrack pops) give
\* nil: the stream is cancelled and packets set to nil.  For a track the
\* request is built and sent; either may fail, and the loop continues from the
\* top; otherwise the track is streamed.
RunTrack ==
    /\ rp.pc = "track"
    /\ LET g == rp.gid
           q == playlist[g]
       IN  IF rp.vs = "" \/ rp.track # ""
           THEN /\ rp' = [rp EXCEPT !.pc = "select"]
                /\ UNCHANGED <<playlist, rPlays, pipe>>
           ELSE IF q = <<>>
           THEN /\ rp' = [rp EXCEPT !.pc = "select", !.packets = "nil"]
                /\ pipe' = Cancelled(pipe)
                /\ UNCHANGED <<playlist, rPlays>>
           ELSE IF Peeked(q) = Malformed
           THEN /\ playlist' = [playlist EXCEPT ![g] = LPop(@)]
                /\ rp' = [rp EXCEPT !.pc = "select", !.packets = "nil"]
                /\ pipe' = Cancelled(pipe)
                /\ UNCHANGED rPlays
           ELSE \E answered \in BOOLEAN :
                   IF answered
                   THEN /\ rp' = [rp EXCEPT !.pc = "select", !.packets = "open",
                                            !.track = TakenUp(Peeked(q)), !.got = 0]
                        /\ rPlays' = IF Len(rPlays) < MaxPlays
                                     THEN Append(rPlays, Peeked(q)) ELSE rPlays
                        /\ \E n \in 0..MaxChunks : pipe' = Started(pipe, n)
                        /\ UNCHANGED playlist
                   ELSE /\ rp' = [rp EXCEPT !.pc = "top", !.packets = "nil"]
                        /\ pipe' = Cancelled(pipe)
                        /\ UNCHANGED <<playlist, rPlays>>
    /\ UNCHANGED <<state, channel, lock, age, orphan, procVars, thr, ses, obsVars,
                   ctlVars, watchVars, rStop, rCtxDone>>

\* streamResponse reads io.EOF (or an error): both pipeline channels close.
RunStreamEnds ==
    /\ pipe = NoPipe
    /\ rp.packets = "open"
    /\ rp.pc \in {"top", "join", "track", "select"}
    /\ rp' = [rp EXCEPT !.packets = "closed"]
    /\ UNCHANGED <<playerVars, ctlVars, watchVars, rStop, rCtxDone, rPlays, pipe>>

\* select case pkt, ok := <-packets with ok: the packet is logged.
RunPacket ==
    /\ rp.pc = "select"
    /\ rp.packets = "open"
    /\ pipe = NoPipe \/ pipe.pkts = "send"
    /\ rp' = [rp EXCEPT !.pc = "top", !.got = Min(@ + 1, MaxFrames)]
    /\ pipe' = IF pipe = NoPipe THEN pipe ELSE [pipe EXCEPT !.pkts = "select"]
    /\ UNCHANGED <<playerVars, ctlVars, watchVars, rStop, rCtxDone, rPlays>>

\* select case pkt, ok := <-packets with !ok: cancel(), track = nil, continue.
RunPacketsClosed ==
    /\ rp.pc = "select"
    /\ rp.packets = "closed"
    /\ rp' = [rp EXCEPT !.pc = "top", !.track = ""]
    /\ pipe' = Cancelled(pipe)
    /\ UNCHANGED <<playerVars, ctlVars, watchVars, rStop, rCtxDone, rPlays>>

\* select case <-stop, case <-ctx.Done(): break loop.
RunBreak ==
    /\ rp.pc = "select"
    /\ rStop \/ rCtxDone
    /\ rp' = [rp EXCEPT !.pc = "exit"]
    /\ UNCHANGED <<playerVars, ctlVars, watchVars, rStop, rCtxDone, rPlays, pipe>>

\* select case <-ticker.C: the next pass of the loop.
RunTick ==
    /\ rp.pc = "select"
    /\ rp' = [rp EXCEPT !.pc = "top"]
    /\ UNCHANGED <<playerVars, ctlVars, watchVars, rStop, rCtxDone, rPlays, pipe>>

\* Run returns: the deferred cancel() and voiceState.Disconnect().
RunExit ==
    /\ rp.pc = "exit"
    /\ rp' = [rp EXCEPT !.pc = "returned", !.vs = "", !.packets = "nil"]
    /\ pipe' = Cancelled(pipe)
    /\ UNCHANGED <<playerVars, ctlVars, watchVars, rStop, rCtxDone, rPlays>>

\* The owner of the player signals stop.
RunStop ==
    /\ rp.pc # "none"
    /\ ~rStop
    /\ rStop' = TRUE
    /\ UNCHANGED <<playerVars, ctlVars, watchVars, rp, rCtxDone, rPlays, pipe>>

\* The context handed to Run is cancelled.
RunCtxCancel ==
    /\ rp.pc # "none"
    /\ ~rCtxDone
    /\ rCtxDone' = TRUE
    /\ UNCHANGED <<playerVars, ctlVars, watchVars, rp, rStop, rPlays, pipe>>

RunStep ==
    \/ RunReadChannel
    \/ RunJoin
    \/ RunTrack
    \/ RunStreamEnds
    \/ RunPacket
    \/ RunPacketsClosed
    \/ RunBreak
    \/ RunTick
    \/ RunExit

\* The playlist starts with a malformed envelope; the pushes are counted.
InitRun ==
    InitRestarted(<<Malformed>>, "", {1}, NotObserved, [g \in Guilds |-> 0], NotObserved, NotObserved, NotObserved)

NextRun ==
    \/ \E g \in Guilds : RunStart(g)
    \/ RunStep
    \/ RunStop
    \/ RunCtxCancel
    \/ EnvStep
    \/ \E g \in Guilds : EnvSetChannel(g)

SpecRun == InitRun /\ [][NextRun]_vars

\* ---- what Player.Run (part_006) does with the playlist (SpecRun) ---------

\* Run reads the playlist in this step and finds it empty.
FindsEmpty ==
    /\ rp.pc = "track"
    /\ rp.vs # ""
    /\ rp.track = ""
    /\ playlist[rp.gid] = <<>>
    /\ rp' # rp

\* C21: the step in which the session finds the playlist empty deletes the
\* guild's state key and leaves the run loop.
C21_EmptyQueueClearsStateAndExits ==
    [][FindsEmpty => state'[rp.gid] = "" /\ rp'.pc \in {"exit", "returned"}]_vars

\* Run takes the closed packets channel in its select: the stream of the
\* current track has ended.
StreamEnded ==
    /\ rp.pc = "select"
    /\ rp.packets = "closed"
    /\ rp.track # ""
    /\ rp'.pc = "top"
    /\ rp'.track = ""

\* C22: when the stream of the current head ends, the session pops that head,
\* and it starts no more streams than tracks were pushed: no head is played a
\* second time.
C22_EndedHeadPoppedOnce ==
    [][/\ StreamEnded => playlist'[rp.gid] = LPop(playlist[rp.gid])
       /\ \A g \in DOMAIN pushed : Len(rPlays') <= pushed'[g]]_vars

\* BuildMediaRequest or Client.Do fails for the head Run has just read.
RequestFails ==
    /\ rp.pc = "track"
    /\ rp'.pc = "top"

\* C23: an error on the current head skips that one track: the step in which
\* the request for the head fails removes the head from the playlist.
C23_FailedHeadSkipped ==
    [][RequestFails => playlist'[rp.gid] = LPop(playlist[rp.gid])]_vars

\* ---- what a player goroutine leaves behind (SpecStop) --------------------

\* The goroutines of the process that have called vcWaitGroup.Add(1) and not
\* yet vcWaitGroup.Done().
Counted_In(p) ==
    {i \in DOMAIN ses[p] :
        ses[p][i].pc \in {"peek", "empty", "inner", "ret", "unlock", "delete", "wgDone"}}

\* C24: whatever made Play return, the goroutine then releases the lease,
\* removes the registry entry and completes the wait group: a goroutine past
\* mutex.Unlock() holds no lease, a goroutine past the delete has no entry in
\* vcCancels, and vcWaitGroup counts exactly the goroutines still to call Done.
C24_NothingLeftBehind ==
    /\ vcWaitGroup[Local] = Cardinality(Counted_In(Local))
    /\ \A i \in DOMAIN ses[Local], g \in Guilds :
          /\ (ses[Local][i].pc \in {"delete", "wgDone", "none"}
                /\ thr[Local][i].pc # "register") =>
                 ~Owns(MutexValue(Local, i), g)
          /\ ses[Local][i].pc \in {"wgDone", "none"} => vcCancels[Local][g] # i

\* A session that was cancelled while playing has ended: no lease, no registry
\* entry and an empty wait group are left.
C24_CancelledSessionGone ==
    \E g \in Guilds, i \in DOMAIN ses[Local] :
        /\ snapshot[g] # <<>>
        /\ ses[Local][i].pc = "none"
        /\ thr[Local][i].pc = "idle"
        /\ lock[g] = {}
        /\ vcCancels[Local][g] = 0
        /\ vcWaitGroup[Local] = 0

\* ---- streaming and the release of the lease (SpecStop) -------------------

\* The step sends a frame of the session on its voice connection.
SendsFrame(p, i) == ses'[p][i].sent = ses[p][i].sent + 1

\* The step is the goroutine's mutex.Unlock().
Unlocks(p, i) == ses[p][i].pc = "unlock" /\ ses'[p][i].pc = "delete"

C26_NoTrackAfterFailedExtend ==
    [][\A i \in DOMAIN ses[Local] :
          ses[Local][i].extFailed =>
              /\ ses'[Local][i].pc \notin {"peek", "empty", "inner"}
              /\ ~(ses[Local][i].pt # "run" /\ ses'[Local][i].pt = "run")
              /\ playlist' = playlist \/ ses'[Local][i] = ses[Local][i]]_vars

\* Extend has just failed in a session that was playing a track.
C26_ExtendFailed ==
    \E i \in DOMAIN ses[Local] :
        /\ ses[Local][i].extFailed
        /\ ses[Local][i].cur # ""
        /\ ~Owns(MutexValue(Local, i), ses[Local][i].gid)

\* ---- Player.Run (part_006) and its stop signal, fairly scheduled ---------

\* The goroutine of Run keeps running, and a select with the stop channel or
\* the done context ready does not pass them over forever (Go's select picks
\* among the ready cases at random).
FairRun == WF_vars(RunStep) /\ SF_vars(RunBreak) /\ WF_vars(RunExit)

SpecRunLive == InitRun /\ [][NextRun]_vars /\ FairRun

\* C27: once the stop channel of a session is signalled, its run loop
\* returns, whether or not the voice join or the media request keeps failing.
C27_StopLeadsToReturn == rStop ~> rp.pc = "returned"

\* ---- two guilds in one process --------------------------------------------

BothGuilds == {"g1", "g2"}

\* The goroutine of process Local that reconciles guild g.
GuildSlot == [g \in BothGuilds |-> IF g = "g1" THEN 1 ELSE 2]

\* Guild g1 is to play, and its lease was claimed a moment ago by an instance
\* that was killed; guild g2's lock is free and its users start and stop it.
\* Both guilds have a channel, guild g2 has a track.
InitGuilds ==
    /\ state = [g \in BothGuilds |-> IF g = "g1" THEN StatePlaying ELSE ""]
    /\ playlist = [g \in BothGuilds |-> IF g = "g1" THEN <<>> ELSE <<"A">>]
    /\ channel = [g \in BothGuilds |-> "c1"]
    /\ lock = [g \in BothGuilds |->
                 IF g = "g1" THEN {Lease(MutexValue(CHOOSE p \in Procs : p # Local, 1))}
                 ELSE {}]
    /\ age = [g \in BothGuilds |-> IF g = "g1" THEN 0 ELSE Expiry]
    /\ orphan = [g \in BothGuilds |-> g = "g1"]
    /\ alive = [p \in Procs |-> p = Local]
    /\ ctxDone = [p \in Procs |-> FALSE]
    /\ isShuttingDown = [p \in Procs |-> FALSE]
    /\ runPc = [p \in Procs |-> IF p = Local THEN "run" ELSE "dead"]
    /\ vcCancels = [p \in Procs |-> [g \in BothGuilds |-> 0]]
    /\ vcWaitGroup = [p \in Procs |-> 0]
    /\ thr = [p \in Procs |-> [i \in {1, 2} |-> NoThread]]
    /\ ses = [p \in Procs |-> [i \in {1, 2} |-> NoSession]]
    /\ cState = [g \in Guilds |-> ""]
    /\ cCtxDone = FALSE
    /\ cRunPc = "loop"
    /\ cCancels = [g \in Guilds |-> 0]
    /\ cWg = 0
    /\ cPlayers = [k \in 1..MaxPlayers |-> NoPlayer]
    /\ wSubs = {}
    /\ wCh = <<>>
    /\ wPc = "recv"
    /\ wCtxDone = FALSE
    /\ wLog = NotObserved
    /\ rp = NoRun
    /\ rStop = FALSE
    /\ rCtxDone = FALSE
    /\ rPlays = <<>>
    /\ pipe = NoPipe
    /\ attempts = NotObserved
    /\ pushed = NotObserved
    /\ snapshot = NotObserved
    /\ delivered = NotObserved
    /\ pending = NotObserved

\* A notification for guild g is received and its Fulfill goroutine started.
GuildNotified(g) == FulfillGet(Local, GuildSlot[g], g)

\* The other steps of the goroutines of process Local.
GuildStep(i) ==
    \/ FulfillStopped(Local, i)
    \/ FulfillCheck(Local, i)
    \/ FulfillLock(Local, i)
    \/ FulfillWake(Local, i)
    \/ FulfillRegister(Local, i)
    \/ SessionStep(Local, i)
    \/ PlayTrackSend(Local, i)
    \/ PlayTrackReturn(Local, i)

NextGuilds ==
    \/ TimedTick
    \/ \E v \in {StatePlaying, StateStopped} : EnvSetState("g2", v)
    \/ \E g \in BothGuilds : GuildNotified(g)
    \/ \E i \in {1, 2} : GuildStep(i)

SpecGuilds == InitGuilds /\ [][NextGuilds]_vars

\* The Go scheduler runs every goroutine that can take a step.  Nothing is
\* assumed about the clock: the lease on guild g1 may stay in the store for
\* as long as one likes.
FairGuilds ==
    \A i \in {1, 2} :
        /\ WF_vars(FulfillStopped(Local, i))
        /\ WF_vars(FulfillCheck(Local, i))
        /\ WF_vars(FulfillStep(Local, i))
        /\ WF_vars(SessionStep(Local, i))
        /\ WF_vars(PlayTrackReturn(Local, i))
        /\ WF_vars(PlayTrackDone(Local, i))
        /\ WF_vars(PlayCancelled(Local, i))

SpecGuildsLive == InitGuilds /\ [][NextGuilds]_vars /\ FairGuilds

\* The Fulfill call for guild g has work to do before its next wait.
Reconciling(g) ==
    thr[Local][GuildSlot[g]].pc \in {"stopped", "check", "lock", "register"}

\* The Fulfill call for guild g has returned, or sleeps because the lease of
\* its own guild is taken.
Reconciled(g) == thr[Local][GuildSlot[g]].pc \in {"idle", "sleep"}

\* C28: a notification for guild g2 is reconciled (its session cancelled or
\* spawned, or its call waiting for g2's own lease) however long the Fulfill
\* call for guild g1 stays in its Lock retry loop.
C28_OtherGuildReconciled == Reconciling("g2") ~> Reconciled("g2")

\* The call for g1 sleeps between two Lock attempts while a session spawned
\* for g2 after that is streaming.
C28_G2PlaysWhileG1Waits ==
    /\ thr[Local][GuildSlot["g1"]].pc = "sleep"
    /\ ~LockFree("g1")
    /\ ses[Local][GuildSlot["g2"]].pc = "inner"
    /\ ses[Local][GuildSlot["g2"]].gid = "g2"

\* ---- two notifications for one guild --------------------------------------

\* As InitPair, and the order in which the Fulfill calls of process Local were
\* started is observed.
InitOrder ==
    InitRestarted(<<"A">>, "c1", {1, 2}, NotObserved, NotObserved, NotObserved,
                  [p \in {Local} |-> <<>>], NotObserved)

SpecOrder == InitOrder /\ [][NextPair]_vars

\* The calls of process p that were started before call i, for the same guild,
\* and have not returned.
Earlier(p, i) ==
    {delivered[p][k] : k \in {n \in 1..Len(delivered[p]) :
        /\ \E m \in (n + 1)..Len(delivered[p]) : delivered[p][m] = i
        /\ thr[p][delivered[p][n]].gid = thr[p][i].gid}}

\* Call i reads or writes the session registry, or tries to claim the lease.
RegistryOrLeaseAction(p, i) ==
    \/ FulfillStopped(p, i)
    \/ FulfillCheck(p, i)
    \/ FulfillLock(p, i)
    \/ FulfillRegister(p, i)

\* C29: a Fulfill call acts on the registry or the lease of its guild only
\* when every call started before it for the same guild has returned.
C29_InDeliveryOrder ==
    [][\A i \in DOMAIN thr[Local] :
          RegistryOrLeaseAction(Local, i) => Earlier(Local, i) = {}]_vars

\* ---- Watcher.Run: events in, keys out -------------------------------------

\* The keys the controller watches, in database 0.
WatchedKeys == {<<"k">>, <<"k", ":">>}

\* Run has been started on a connection without subscriptions; the events it
\* receives and the keys it sends are observed.
InitWatch ==
    /\ state = [g \in Guilds |-> ""]
    /\ playlist = [g \in Guilds |-> <<>>]
    /\ channel = [g \in Guilds |-> "c1"]
    /\ lock = [g \in Guilds |-> {}]
    /\ age = [g \in Guilds |-> Expiry]
    /\ orphan = [g \in Guilds |-> FALSE]
    /\ alive = [p \in Procs |-> TRUE]
    /\ ctxDone = [p \in Procs |-> FALSE]
    /\ isShuttingDown = [p \in Procs |-> FALSE]
    /\ runPc = [p \in Procs |-> "run"]
    /\ vcCancels = [p \in Procs |-> [g \in Guilds |-> 0]]
    /\ vcWaitGroup = [p \in Procs |-> 0]
    /\ thr = [p \in Procs |-> [i \in Slots |-> NoThread]]
    /\ ses = [p \in Procs |-> [i \in Slots |-> NoSession]]
    /\ cState = [g \in Guilds |-> ""]
    /\ cCtxDone = FALSE
    /\ cRunPc = "loop"
    /\ cCancels = [g \in Guilds |-> 0]
    /\ cWg = 0
    /\ cPlayers = [k \in 1..MaxPlayers |-> NoPlayer]
    /\ wSubs = {}
    /\ wCh = <<>>
    /\ wPc = "recv"
    /\ wCtxDone = FALSE
    /\ wLog = [f \in {"seen", "sent"} |-> <<>>]
    /\ rp = NoRun
    /\ rStop = FALSE
    /\ rCtxDone = FALSE
    /\ rPlays = <<>>
    /\ pipe = NoPipe
    /\ attempts = NotObserved
    /\ pushed = NotObserved
    /\ snapshot = NotObserved
    /\ delivered = NotObserved
    /\ pending = NotObserved

NextWatch ==
    \/ \E key \in WatchedKeys : WatcherSubscribe(0, key)
    \/ \E key \in WatchedKeys : WatcherUnsubscribe(0, key)
    \/ \E kind \in EventKinds, r \in wSubs : WatcherReceive(kind, r)
    \/ WatcherError
    \/ WatcherCancel
    \/ WatcherTaken

SpecWatch == InitWatch /\ [][NextWatch]_vars

RECURSIVE KeysOf(_)
\* One key for every subscription and message event of the sequence, in the
\* order of the events, and none for an error.
KeysOf(events) ==
    IF events = <<>> THEN <<>>
    ELSE IF Head(events).kind \in EventKinds
         THEN <<AfterFirstColon(Head(events).topic)>> \o KeysOf(Tail(events))
         ELSE KeysOf(Tail(events))

\* C30: the keys Run has sent are those of the subscription and message
\* events it received, one for each and in their order, none for an error;
\* and an error received while the context is not done sends nothing and
\* leaves Run in its receive loop.
C30_OneKeyPerEventInOrder ==
    /\ [](wLog["sent"] = KeysOf(wLog["seen"]))
    /\ [][WatcherError /\ ~wCtxDone => wPc' = "recv" /\ wCh' = wCh]_vars

\* Run received a subscription event, then an error with its context not
\* done, then a message for another key, and has sent the two keys.
C30_ErrorBetweenTwoKeys ==
    /\ Len(wLog["seen"]) = 3
    /\ wLog["seen"][1].kind = "subscription"
    /\ wLog["seen"][2].kind = "error"
    /\ wLog["seen"][3].kind = "message"
    /\ wLog["sent"] = <<<<"k">>, <<"k", ":">>>>
    /\ ~wCtxDone
    /\ wPc = "recv"

\* ---- the key namespace (src/unnamed/part_000) -----------------------------

RECURSIVE BeforeFirstColon(_)
BeforeFirstColon(t) ==
    IF t = <<>> \/ Head(t) = ":" THEN <<>>
    ELSE <<Head(t)>> \o BeforeFirstColon(Tail(t))

RECURSIVE Split(_)
\* strings.Split(s, ":"): the fields between the separators; one field, the
\* whole string, when there is no separator (the empty string included).
Split(t) ==
    IF \A n \in 1..Len(t) : t[n] # ":" THEN <<t>>
    ELSE <<BeforeFirstColon(t)>> \o Split(AfterFirstColon(t))

\* The value of an index expression whose index is past the end of the slice:
\* the goroutine panics and the process dies.
IndexOutOfRange == <<"panic: index out of range">>

\* fmt.Sprintf("hiqty:server:%s:%s", gid, key)
KeyForServer(gid, key) ==
    <<"h", "i", "q", "t", "y", ":", "s", "e", "r", "v", "e", "r", ":">>
        \o gid \o <<":">> \o key

KeyForServerState(gid) == KeyForServer(gid, <<"s", "t", "a", "t", "e">>)

\* strings.Split(key, ":")[2]
GIDFromKey(key) == IF Len(Split(key)) >= 3 THEN Split(key)[3] ELSE IndexOutOfRange

\* strings.Split(topic, ":")[3]
GIDFromKeyspaceEventTopic(topic) ==
    IF Len(Split(topic)) >= 4 THEN Split(topic)[4] ELSE IndexOutOfRange

\* The id Discord gave the guild: a decimal number.
Snowflake(g) == IF g = "g1" THEN <<"4", "2">> ELSE <<"7">>

\* ---- PlayerController.Run reading from Watcher.Run (part_003) -------------

\* What a receive from Run's channel yields now: the key a blocked sender
\* hands over, or the zero value once the channel is closed.
Readable == wCh # <<>> \/ wPc = "closed"

\* case key := <-keys: gid := GIDFromKey(key); c.Fulfill(ctx, gid).  A gid no
\* guild has reads an unset state key, and no cancel is registered for it.
CtlReceive ==
    /\ cRunPc = "loop"
    /\ Readable
    /\ LET key == IF wCh # <<>> THEN wCh[1].key ELSE <<>>
           gid == GIDFromKey(key)
       IN  IF gid = IndexOutOfRange
           THEN /\ cRunPc' = "panic"
                /\ UNCHANGED <<cPlayers, cCancels, cWg>>
           ELSE /\ IF \E g \in Guilds : Snowflake(g) = gid
                   THEN \E g \in Guilds : Snowflake(g) = gid /\ Fulfilled(g)
                   ELSE UNCHANGED <<cPlayers, cCancels, cWg>>
                /\ UNCHANGED cRunPc
    /\ wCh' = <<>>
    /\ UNCHANGED <<playerVars, runVars, cState, cCtxDone, wSubs, wPc, wCtxDone, wLog>>

\* The shutdown signal: main cancels the context of Run, which is the one
\* Run gave to the watcher.
LoopShutdown ==
    /\ ~cCtxDone
    /\ cCtxDone' = TRUE
    /\ wCtxDone' = TRUE
    /\ UNCHANGED <<playerVars, runVars, cState, cRunPc, cCancels, cWg, cPlayers, wSubs, wCh, wPc, wLog>>

\* The steps of the goroutines the controller started.
LoopStep ==
    \/ CtlReceive
    \/ CtlRunBreak
    \/ CtlRunReturn
    \/ \E k \in 1..MaxPlayers : CtlPlayerExit(k)
    \/ \E k \in 1..MaxPlayers : CtlPlayerDelete(k)
    \/ \E k \in 1..MaxPlayers : CtlPlayerDone(k)

NextLoop ==
    \/ \E g \in Guilds : WatcherSubscribe(0, KeyForServerState(Snowflake(g)))
    \/ \E g \in Guilds : WatcherUnsubscribe(0, KeyForServerState(Snowflake(g)))
    \/ \E kind \in EventKinds, r \in wSubs : WatcherReceive(kind, r)
    \/ WatcherError
    \/ \E g \in Guilds, v \in {StatePlaying, StateStopped} : CtlSetState(g, v)
    \/ LoopShutdown
    \/ LoopStep

SpecLoop == Init /\ [][NextLoop]_vars

\* The Go scheduler runs every goroutine that can take a step; nothing makes
\* redis send an event or the connection fail.
FairLoop == WF_vars(LoopStep)

SpecLoopLive == Init /\ [][NextLoop]_vars /\ FairLoop

\* C31: once the context is cancelled, the goroutine of Watcher.Run returns
\* and closes its channel.
C31_CancelClosesChannel == wCtxDone ~> wPc = "closed"

\* C40: Run's loop takes nothing from the watcher's channel once the watcher
\* has closed it: no guild id is derived from the zero value of a closed
\* channel, and the loop is left through case <-ctx.Done() only.
C40_NothingTakenFromClosedChannel ==
    [][~(wPc = "closed" /\ CtlReceive)]_vars

\* The subkeys of a guild.
SubKeys ==
    {<<"s", "t", "a", "t", "e">>,
     <<"p", "l", "a", "y", "l", "i", "s", "t">>,
     <<"c", "h", "a", "n", "n", "e", "l">>,
     <<"p", "l", "a", "y", "e", "r", "_", "l", "o", "c", "k">>}

GuildIds == {Snowflake(g) : g \in BothGuilds}

\* The guild id is got back from every key of a guild and from the topic of
\* every such key, in every database.
KeyRoundTrips ==
    \A gid \in GuildIds, k \in SubKeys, db \in Dbs :
        /\ GIDFromKey(KeyForServer(gid, k)) = gid
        /\ GIDFromKeyspaceEventTopic(TopicForKeyspaceEvent(db, KeyForServer(gid, k))) = gid

\* C35: GIDFromKey and GIDFromKeyspaceEventTopic undo KeyForServer and
\* TopicForKeyspaceEvent, and GIDFromKey fails on nothing the controller's
\* loop gives it.
C35_KeyInversesTotal == KeyRoundTrips /\ cRunPc # "panic"

\* ---- the stages of a sub-session (src/unnamed/part_006) -------------------

\* streamResponse: res.Body.Read(buf) returns a chunk, or io.EOF or an error,
\* on which the goroutine returns (res.Body.Close(), close(ch)).
RespRead ==
    /\ pipe.resp = "read"
    /\ \E read \in BOOLEAN :
          pipe' = IF read /\ pipe.left > 0
                  THEN [pipe EXCEPT !.resp = "send", !.left = @ - 1]
                  ELSE [pipe EXCEPT !.resp = "closed"]
    /\ UNCHANGED <<playerVars, ctlVars, watchVars, rp, rStop, rCtxDone, rPlays>>

\* streamResponse: ch <- buf[:l], taken by streamPackets in case pkt, ok :=
\* <-indata.  The channel has no buffer: the send waits for the receive.
RespSend ==
    /\ pipe.resp = "send"
    /\ pipe.pkts = "select"
    /\ pipe' = [pipe EXCEPT !.resp = "check", !.pkts = "send"]
    /\ UNCHANGED <<playerVars, ctlVars, watchVars, rp, rStop, rCtxDone, rPlays>>

\* streamResponse: select case <-ctx.Done(): return; default.
RespCheck ==
    /\ pipe.resp = "check"
    /\ pipe' = [pipe EXCEPT !.resp = IF pipe.cancelled THEN "closed" ELSE "read"]
    /\ UNCHANGED <<playerVars, ctlVars, watchVars, rp, rStop, rCtxDone, rPlays>>

\* streamPackets: the select finds indata closed (!ok) or ctx done, and the
\* goroutine returns (close(ch)); Run's packets, if it still is this channel,
\* reads as closed.
PktsReturn ==
    /\ pipe.pkts = "select"
    /\ pipe.resp = "closed" \/ pipe.cancelled
    /\ pipe' = [pipe EXCEPT !.pkts = "closed"]
    /\ rp' = [rp EXCEPT !.packets = IF @ = "open" THEN "closed" ELSE @]
    /\ UNCHANGED <<playerVars, ctlVars, watchVars, rStop, rCtxDone, rPlays>>

\* The steps of the two stage goroutines.  (ch <- pkt of streamPackets is
\* the other half of RunPacket.)
StageStep ==
    \/ RespRead
    \/ RespSend
    \/ RespCheck
    \/ PktsReturn

\* As InitRun, with a track at the head and the channel set; the stages of
\* the sub-sessions are taken one by one.
InitPipe ==
    /\ state = [g \in Guilds |-> ""]
    /\ playlist = [g \in Guilds |-> <<"A">>]
    /\ channel = [g \in Guilds |-> "c1"]
    /\ lock = [g \in Guilds |-> {Lease(MutexValue(CHOOSE p \in Procs : p # Local, 1))}]
    /\ age = [g \in Guilds |-> 0]
    /\ orphan = [g \in Guilds |-> TRUE]
    /\ alive = [p \in Procs |-> p = Local]
    /\ ctxDone = [p \in Procs |-> FALSE]
    /\ isShuttingDown = [p \in Procs |-> FALSE]
    /\ runPc = [p \in Procs |-> IF p = Local THEN "run" ELSE "dead"]
    /\ vcCancels = [p \in Procs |-> [g \in Guilds |-> 0]]
    /\ vcWaitGroup = [p \in Procs |-> 0]
    /\ thr = [p \in Procs |-> [i \in {1} |-> NoThread]]
    /\ ses = [p \in Procs |-> [i \in {1} |-> NoSession]]
    /\ cState = [g \in Guilds |-> ""]
    /\ cCtxDone = FALSE
    /\ cRunPc = "loop"
    /\ cCancels = [g \in Guilds |-> 0]
    /\ cWg = 0
    /\ cPlayers = [k \in 1..MaxPlayers |-> NoPlayer]
    /\ wSubs = {}
    /\ wCh = <<>>
    /\ wPc = "recv"
    /\ wCtxDone = FALSE
    /\ wLog = NotObserved
    /\ rp = NoRun
    /\ rStop = FALSE
    /\ rCtxDone = FALSE
    /\ rPlays = <<>>
    /\ pipe = IdlePipe
    /\ attempts = NotObserved
    /\ pushed = NotObserved
    /\ snapshot = NotObserved
    /\ delivered = NotObserved
    /\ pending = NotObserved

NextPipe ==
    \/ \E g \in Guilds : RunStart(g)
    \/ RunReadChannel
    \/ RunJoin
    \/ RunTrack
    \/ RunPacket
    \/ RunPacketsClosed
    \/ RunBreak
    \/ RunTick
    \/ RunExit
    \/ StageStep
    \/ RunStop
    \/ RunCtxCancel

SpecPipe == InitPipe /\ [][NextPipe]_vars

\* The Go scheduler runs every goroutine that can take a step, and a read of
\* the response body returns.
FairPipe ==
    /\ WF_vars(RunReadChannel \/ RunJoin \/ RunTrack \/ RunPacket \/ RunPacketsClosed
                  \/ RunBreak \/ RunTick \/ RunExit)
    /\ WF_vars(RespRead \/ RespSend \/ RespCheck)
    /\ WF_vars(PktsReturn)

SpecPipeLive == InitPipe /\ [][NextPipe]_vars /\ FairPipe

\* C32: once the context of a sub-session is cancelled, streamResponse and
\* streamPackets both return and close their channels.
C32_CancelEndsBothStages ==
    pipe.cancelled ~> (pipe.resp = "closed" /\ pipe.pkts = "closed")

\* ---- a failed voice join (SpecTimed) --------------------------------------

\* The goroutine in slot i starts Play, the channel key is set, and
\* ChannelVoiceJoin fails.
JoinFails(p, i) ==
    /\ SessStart(p, i)
    /\ channel[ses[p][i].gid] # ""
    /\ ~ses'[p][i].vc

\* C33: a session whose voice join fails stays alive (to try the join again
\* on a later pass of its loop): it does not return from Play.
C33_JoinFailureNotFatal ==
    [][\A i \in DOMAIN ses[Local] :
          JoinFails(Local, i) =>
              ses'[Local][i].pc \in {"spawned", "peek", "empty", "inner"}]_vars

\* ---- convergence on the desired state -------------------------------------

\* As InitPair; the events of the guild are counted, and a Fulfill call is
\* started for each.  The first is the guild-create event of the start-up.
InitConverge ==
    InitRestarted(<<"A">>, "c1", {1, 2}, NotObserved, NotObserved, NotObserved,
                  NotObserved, [g \in Guilds |-> 1])

SpecConverge == InitConverge /\ [][NextPair]_vars

\* Every event of the guild has been received and its Fulfill call has
\* returned, and no goroutine of the process has a step to take before the
\* clock moves.
Quiescent(g) ==
    /\ pending[g] = 0
    /\ \A i \in DOMAIN thr[Local] : thr[Local][i].pc = "idle"
    /\ ~Busy(Local)

\* The lease on the guild's lock is one a Fulfill call of process p claimed.
LeaseOf(p, g) == \E i \in DOMAIN ses[p] : Owns(MutexValue(p, i), g)

\* C37: a Fulfill call registers and spawns a session only while the state
\* is "playing"; and in every quiescent state whose state key is "stopped"
\* or unset the process runs no session for the guild and holds no lease on it.
C37_ConvergesToStopped ==
    /\ [][\A i \in DOMAIN thr[Local] :
             FulfillRegister(Local, i) => state[thr[Local][i].gid] = StatePlaying]_vars
    /\ [](\A g \in Guilds :
             Quiescent(g) /\ state[g] # StatePlaying =>
                 RunningFor(Local, g) = {} /\ ~LeaseOf(Local, g))

\* C38: the guild is never left with state "playing" and a track in its
\* playlist while no session runs for it, no Fulfill call is under way and
\* no event of the guild is waiting.
C38_PlayingNeverStranded ==
    \A g \in Guilds :
        ~(/\ state[g] = StatePlaying
          /\ playlist[g] # <<>>
          /\ Quiescent(g)
          /\ \A i \in DOMAIN ses[Local] : ses[Local][i].pc = "none")

\* ---- the Responder's enqueue against the session's last look --------------

\* Responder.HandleMessageCreate for a play command: RPUSH the track's
\* envelope, SET channel, SET state playing.
ResponderEnqueue(g, t) ==
    /\ Len(playlist[g]) < MaxQueue
    /\ g \in DOMAIN pending => pending[g] < MaxPending
    /\ playlist' = [playlist EXCEPT ![g] = RPush(@, t)]
    /\ channel' = [channel EXCEPT ![g] = "c1"]
    /\ state' = [state EXCEPT ![g] = StatePlaying]
    /\ pushed' = Counted(pushed, g)
    /\ pending' = Notified(pending, g)
    /\ UNCHANGED <<lock, age, orphan, procVars, thr, ses, ctlVars, watchVars, runVars, attempts, snapshot, delivered>>

\* Nothing is queued and no state is set; the events of the guild are counted.
InitEnqueue ==
    InitRestarted(<<>>, "", {1}, NotObserved, NotObserved, NotObserved,
                  NotObserved, [g \in Guilds |-> 1])

NextEnqueue ==
    \/ TimedTick
    \/ \E g \in Guilds, t \in Tracks : ResponderEnqueue(g, t)
    \/ PlayerStep(Local)

SpecEnqueue == InitEnqueue /\ [][NextEnqueue]_vars

\* C36: the session deletes the state key only when the playlist is empty at
\* that moment; and once everything has been reconciled no track is left in
\* the playlist with the state key unset and no session of the guild.
C36_NoLostEnqueue ==
    /\ [][\A i \in DOMAIN ses[Local] :
             PlayClearState(Local, i) => playlist[ses[Local][i].gid] = <<>>]_vars
    /\ [](\A g \in Guilds :
             ~(/\ playlist[g] # <<>>
               /\ state[g] = ""
               /\ Quiescent(g)
               /\ \A i \in DOMAIN ses[Local] : ses[Local][i].pc = "none"))

====
